---- MODULE Spec2Model ----
(***************************************************************************)
(* Conversion task supervisor (src/src/conversion/mod.rs) and the task     *)
(* registry that composes supervisors behind a semaphore                   *)
(* (src/src/services/conversion_service.rs, src/src/services/mod.rs).      *)
(*                                                                         *)
(* Two specifications share the supervisor actions:                        *)
(*   Spec     one ConversionTask driven directly: execute(), cancel() and  *)
(*            a consumer of the status receiver;                           *)
(*   SvcSpec  the ConversionService: start_conversion, the background      *)
(*            execute_conversion tasks, cancel_conversion, the timeout     *)
(*            and cleanup_completed_tasks.                                 *)
(***************************************************************************)
EXTENDS Integers, Sequences, FiniteSets, TLC

\* ------------------------------------------------------------------ bounds
\* Most lines a subprocess writes to its output stream before it exits.
MaxLines == 2
\* Most interruptions in a run: cancel_conversion calls and elapsed timeouts.
MaxInterrupts == 1
\* Most direct calls of ConversionTask::cancel on one task.
MaxCancels == 2
\* Most observed calls of start_conversion and execute
MaxCalls == 5
\* The longest error stream of a failed subprocess, in lines.
MaxStderrLines == 12
\* The task ids AppData is given.
MaxAppTasks == 2
\* The conversions started from the window, and the progress lines one
\* ffmpeg writes.
MaxConversions == 2
MaxProgressLines == 2
\* The lines the stderr pipe of a subprocess holds before a write to it blocks.
StderrPipeLines == 1

\* ------------------------------------------------------- program constants
MAX_CONCURRENT_CONVERSIONS == 2
CHANNEL_CAPACITY == 100
\* The lines of the error stream execute() reads (`while line_count < 10`).
MAX_ERROR_LINES == 10
\* SecurityValidator::max_args.
MAX_ARGS == 50
\* The longest path validate_path accepts, in bytes.
MAX_PATH_LEN == 4096
\* The longest file name sanitize_filename returns, in bytes, and the length
\* to which it cuts a longer one before it appends "...".
MAX_FILENAME_LEN == 255
TRUNCATED_LEN == 252

\* Task ids: one more than the concurrency limit, so that a request beyond
\* the limit exists.
TaskIds == 1 .. (MAX_CONCURRENT_CONVERSIONS + 1)
\* The task driven directly in Spec.
DirectIds == {1}

\* AppEvent variants the ConversionService sends.
EventKinds == {"Requested", "Started", "Progress", "Completed", "Failed", "Cancelled"}

\* Output lines, by what ProgressParser::parse_line sees in them.
Lines == {"frame= 120 fps=29.7", "Press [q] to stop"}

VARIABLES
  \* ---- ConversionTask / supervisor, per task id
  cancel_flag,   \* Arc<Mutex<bool>> shared by the task, its clones, reader, poller
  sup,           \* position of the supervisor (output-reader) task
  poller,        \* position of the cancellation_task
  abortReq,      \* cancellation_task.abort() was called and has not yet taken effect
  sent,          \* statuses whose send on the status channel completed, in order
  nrecv,         \* number of statuses the receiver has taken
  rx,            \* status receiver: "none" | "open" | "dropped"
  proc,          \* ffmpeg subprocess: "none" | "running" | "success" | "failure" (exit status)
  toWrite,       \* lines the subprocess may still write
  pipe,          \* lines written to stdout and not yet read
  killIssued,    \* a kill -TERM / taskkill /F was spawned for the subprocess
  progressLines, \* lines read with the flag false for which parse_line returned Some
  readFailed,    \* ids whose output loop ended on an Err of read_line
  cancelPos,     \* where the supervisor was when cancel() first set the flag:
                 \* "never" (unset), "streaming" (subprocess spawned and still
                 \* running, reader in its loop) or the reader's position
  cancelCalls,   \* direct calls of cancel() made on the task
  errPipe,       \* lines written to the stderr pipe and not read
  errBlocked,    \* ids whose subprocess is in a write to a full stderr pipe
  \* ---- state::AppData
  state,         \* AppData.state: an AppState
  input_file,    \* AppData.input_file: None or a path
  output_file,   \* AppData.output_file: None or a path
  error_message, \* AppData.error_message: None or a text
  progress_changed, \* AppData.progress_changed
  appCall,       \* the method of AppData called last, with the state it found
  \* ---- app::FFmpegApp and the ConversionTask of conversion.rs
  app,           \* the fields of FFmpegApp the conversion uses
  conv,          \* per conversion: position of its task, its ffmpeg, lines read
  chan,          \* per channel: the receiver exists, messages sent and not taken
  started,       \* conversions started so far; the last one is the current one
  left,          \* conversions the window has left (finished or stopped)
  staleApplied,  \* messages applied that were sent by or for a left conversion
  \* ---- ConversionService
  status,        \* registry: ManagedTask.status per id ("None" = no entry)
  error,         \* registry: the error text of a Failed status
  issued,        \* ids returned by Uuid::new_v4 in start_conversion
  active,        \* ResourceManager.active_tasks (ids)
  permits,       \* available permits of concurrency_semaphore
  exec,          \* position of the background execute_conversion task
  events,        \* AppEvents sent: their number, per task id and kind
  interrupts,    \* cancel_conversion calls made and timeouts elapsed
  cancelledRunning, \* ids on which cancel_conversion set Cancelled over Running
                 \* while their subprocess was running
  timedOut,      \* ids whose execute_conversion ended by the timeout
  cancelledEarly, \* ids on which cancel_conversion ran before add_task
  timedOutRunning, \* ids whose timeout elapsed while their subprocess was running
  \* ---- what the callers observe
  calls,         \* calls of start_conversion and of execute observed so far
  returned,      \* what the last observed call returned
  versionRuns,   \* `ffmpeg -version` subprocesses run by validate_ffmpeg
  \* ---- ProgressParser
  parser,        \* the ProgressParser execute() built from the probes
  parsedLine,    \* the line last given to parse_line
  snapshot,      \* what parse_line did with it: None, Some(progress) or a panic
  \* ---- functions called on their own
  classified,    \* the ConversionError last given to is_recoverable, and the answer
  diagnosed,     \* the error stream of a failed subprocess and the text of Failed
  validated,     \* the arguments last given to validate_ffmpeg_args, and the Result
  sanitized      \* the name last given to sanitize_filename, and the String

supVars == <<cancel_flag, sup, poller, abortReq, sent, nrecv, rx, proc, toWrite,
             pipe, killIssued, progressLines, readFailed, cancelPos, cancelCalls,
             errPipe, errBlocked>>
svcVars == <<status, error, issued, active, permits, exec, events, interrupts,
             cancelledRunning, timedOut, cancelledEarly, timedOutRunning>>
libVars == <<classified, diagnosed, validated, sanitized>>
obsVars == <<calls, returned, versionRuns, parser, parsedLine, snapshot, libVars>>
\* state::AppData
appVars == <<state, input_file, output_file, error_message, progress_changed,
             appCall>>
\* app::FFmpegApp
guiVars == <<app, conv, chan, started, left, staleApplied>>
uiVars == <<appVars, guiVars>>
vars == <<supVars, svcVars, obsVars, uiVars>>

\* Nothing was returned yet.
NoCall == [call |-> "none", result |-> "none"]

\* --------------------------------------------------------- ConversionError
\* The variants of ConversionError; is_recoverable matches on the variant
\* alone (`{ .. }`), so the messages are left out.
ConversionErrors ==
  {"FFmpegNotFound", "InvalidInput", "SecurityError", "ProcessError",
   "Cancelled", "Io", "InvalidSettings"}

\* ConversionError::is_recoverable: the matches! of four variants.
is_recoverable(e) ==
  e \in {"InvalidInput", "InvalidSettings", "SecurityError", "Cancelled"}

\* ------------------------------------------- the diagnostic of a failure
\* The error streams of a subprocess: line 1, line 2, ... as it wrote them.
StderrStreams == {[i \in 1..n |-> i] : n \in 0..MaxStderrLines}

Min(a, b) == IF a < b THEN a ELSE b

\* The loop of execute() over the error stream, which it starts to read only
\* after the subprocess has exited: read_line from the start of the stream
\* until 10 lines are read or the stream ends.
error_output(stderr) == SubSeq(stderr, 1, Min(Len(stderr), MAX_ERROR_LINES))

\* error_msg: the fixed text when nothing was read, else "FFmpeg error: "
\* followed by the lines read.
error_msg(stderr) ==
  IF error_output(stderr) = <<>>
    THEN [text |-> "FFmpeg process failed without specific error message",
          lines |-> <<>>]
    ELSE [text |-> "FFmpeg error: ", lines |-> error_output(stderr)]

\* No subprocess has failed yet.
NotDiagnosed == [stderr |-> <<>>, msg |-> [text |-> "none", lines |-> <<>>]]

\* ------------------------------------------------------ SecurityValidator
\* A string is the sequence of its characters.
HexDigits ==
  {"0", "1", "2", "3", "4", "5", "6", "7", "8", "9",
   "a", "b", "c", "d", "e", "f", "A", "B", "C", "D", "E", "F"}

\* The character U+0060, which a string of this module cannot hold.
Backtick == "backtick"

\* str::contains and str::starts_with.
contains(str, sub) ==
  \E i \in 1..(Len(str) - Len(sub) + 1) : SubSeq(str, i, i + Len(sub) - 1) = sub
starts_with(str, sub) ==
  Len(str) >= Len(sub) /\ SubSeq(str, 1, Len(sub)) = sub

\* The six injection_patterns of SecurityValidator::new, as is_match.
ShellMetacharacter(str) ==            \* the class of ; & | backtick $
  \E i \in 1..Len(str) : str[i] \in {";", "&", "|", Backtick, "$"}
CommandSubstitution(str) ==           \* \$\([^)]*\)
  \E i \in 1..Len(str), j \in 1..Len(str) :
    i + 1 < j /\ str[i] = "$" /\ str[i + 1] = "(" /\ str[j] = ")"
BacktickSubstitution(str) ==          \* backtick [^backtick]* backtick
  \E i \in 1..Len(str), j \in 1..Len(str) :
    i < j /\ str[i] = Backtick /\ str[j] = Backtick
DirectoryTraversal(str) ==            \* \.\./
  contains(str, <<".", ".", "/">>)
HexEncoding(str) ==                   \* \\x[0-9a-fA-F]{2}
  \E i \in 1..(Len(str) - 3) :
    /\ str[i] = "\\" /\ str[i + 1] = "x"
    /\ str[i + 2] \in HexDigits /\ str[i + 3] \in HexDigits
UrlEncoding(str) ==                   \* %[0-9a-fA-F]{2}
  \E i \in 1..(Len(str) - 2) :
    str[i] = "%" /\ str[i + 1] \in HexDigits /\ str[i + 2] \in HexDigits

\* Some pattern of injection_patterns matches the argument.
injection_patterns(str) ==
  \/ ShellMetacharacter(str)
  \/ CommandSubstitution(str)
  \/ BacktickSubstitution(str)
  \/ DirectoryTraversal(str)
  \/ HexEncoding(str)
  \/ UrlEncoding(str)

disallowed_args ==
  {<<"-", "f">>,
   <<"-", "f", "i", "l", "t", "e", "r", "_", "c", "o", "m", "p", "l", "e", "x">>,
   <<"-", "v", "f">>,
   <<"-", "a", "f">>,
   <<"-", "m", "a", "p">>,
   <<"-", "d", "u", "m", "p">>,
   <<"-", "d", "e", "b", "u", "g">>,
   <<"-", "r", "e", "p", "o", "r", "t">>,
   <<"-", "s", "t", "d", "i", "n">>,
   <<"-", "p", "r", "o", "t", "o", "c", "o", "l", "_", "w", "h", "i", "t", "e", "l", "i", "s", "t">>,
   <<"-", "p", "r", "o", "t", "o", "c", "o", "l", "_", "b", "l", "a", "c", "k", "l", "i", "s", "t">>,
   <<"-", "s", "a", "f", "e">>}

suspicious_paths ==
  {<<"/", "e", "t", "c", "/">>,
   <<"/", "p", "r", "o", "c", "/">>,
   <<"/", "s", "y", "s", "/">>,
   <<"/", "d", "e", "v", "/">>,
   <<"/", "t", "m", "p", "/">>,
   <<"C", ":", "/", "W", "i", "n", "d", "o", "w", "s", "/">>,
   <<"C", ":", "/", "P", "r", "o", "g", "r", "a", "m", " ", "F", "i", "l", "e", "s", "/">>,
   <<"/", "S", "y", "s", "t", "e", "m", "/">>,
   <<"/", "b", "i", "n", "/">>,
   <<"/", "s", "b", "i", "n", "/">>,
   <<"/", "u", "s", "r", "/", "b", "i", "n", "/">>,
   <<"/", "u", "s", "r", "/", "s", "b", "i", "n", "/">>}

\* path.replace: every backslash becomes a slash.
normalized(path) ==
  [i \in 1..Len(path) |-> IF path[i] = "\\" THEN "/" ELSE path[i]]

\* SecurityValidator::validate_path: "Ok" or the error it returns.
validate_path(path) ==
  IF contains(normalized(path), <<".", ".", "/">>) THEN "SuspiciousPath"
  ELSE IF \E sp \in suspicious_paths : starts_with(normalized(path), sp)
    THEN "SuspiciousPath"
  ELSE IF normalized(path) = <<>> \/ Len(normalized(path)) > MAX_PATH_LEN
    THEN "InvalidPath"
  ELSE "Ok"

\* The arguments for which validate_ffmpeg_args calls validate_path.
IsPathArgument(arg) ==
  \/ starts_with(arg, <<"/">>)
  \/ starts_with(arg, <<".", "/">>)
  \/ starts_with(arg, <<".", ".", "/">>)

\* The body of the loop of validate_ffmpeg_args for one argument.
CheckArgument(arg) ==
  IF injection_patterns(arg) THEN "CommandInjection"
  ELSE IF arg \in disallowed_args THEN "DisallowedArgument"
  ELSE IF IsPathArgument(arg) THEN validate_path(arg)
  ELSE "Ok"

Err(e) == [kind |-> e, args |-> <<>>]
Ok(args) == [kind |-> "Ok", args |-> args]

\* The loop of validate_ffmpeg_args from argument i on, with the arguments
\* pushed so far.
RECURSIVE ValidateFrom(_, _, _)
ValidateFrom(args, i, sanitized_args) ==
  IF i > Len(args) THEN Ok(sanitized_args)
  ELSE IF CheckArgument(args[i]) # "Ok" THEN Err(CheckArgument(args[i]))
  ELSE ValidateFrom(args, i + 1, Append(sanitized_args, args[i]))

\* validate_ffmpeg_args without the check of the argument count.
validate_ffmpeg_args_any_count(args) == ValidateFrom(args, 1, <<>>)

\* SecurityValidator::validate_ffmpeg_args.
validate_ffmpeg_args(args) ==
  IF Len(args) > MAX_ARGS THEN Err("TooManyArguments")
  ELSE ValidateFrom(args, 1, <<>>)

\* Arguments given to the validator, and the lists made of them: up to two
\* arguments, and lists of MAX_ARGS and of MAX_ARGS + 1 harmless arguments.
Arguments ==
  {<<"-", "i">>,
   <<"a", ".", "m", "p", "4">>,
   <<"-", "f">>,
   <<"-", "v", "f">>,
   <<"-", "F">>,
   <<"a", ";", "b">>,
   <<"a", "&", "b">>,
   <<"a", "|", "b">>,
   <<Backtick, "a", Backtick>>,
   <<"$", "(", "a", ")">>,
   <<"a", "$">>,
   <<".", ".", "/", "a">>,
   <<"a", "/", ".", ".", "/", "b">>,
   <<"%", "4", "1">>,
   <<"%", "4">>,
   <<"\\", "x", "4", "1">>,
   <<"\\", "x", "4", "g">>,
   <<"/", "e", "t", "c", "/", "a">>,
   <<"/", "h", "o", "m", "e", "/", "a">>,
   <<".", "/", "a">>,
   <<"/", "a", "\\", ".", ".", "\\", "b">>,
   <<>>}

ArgumentLists ==
  {<<>>} \cup {<<a>> : a \in Arguments}
         \cup {<<a, b>> : a \in Arguments, b \in Arguments}
         \cup {[i \in 1..n |-> <<"-", "y">>] : n \in {MAX_ARGS, MAX_ARGS + 1}}

\* The character U+0000.
Nul == "nul"

\* The characters sanitize_filename replaces.
DangerousCharacters == {"/", "\\", "<", ">", ":", "\"", "|", "?", "*", Nul}

\* The ten calls of str::replace: each dangerous character becomes '_'.
replace_dangerous(filename) ==
  [i \in 1..Len(filename) |->
     IF filename[i] \in DangerousCharacters THEN "_" ELSE filename[i]]

\* str::trim_matches for a set of characters: what lies between the first
\* and the last character outside the set.
trim_matches(str, set) ==
  LET keep == {i \in 1..Len(str) : str[i] \notin set}
  IN  IF keep = {} THEN <<>>
      ELSE SubSeq(str, CHOOSE i \in keep : \A j \in keep : i <= j,
                       CHOOSE i \in keep : \A j \in keep : j <= i)

\* str::trim: surrounding whitespace.
trim(str) == trim_matches(str, {" ", "\t", "\n", "\r"})

unnamed == <<"u", "n", "n", "a", "m", "e", "d">>

\* SecurityValidator::sanitize_filename: replace, trim, then trim the dots;
\* "unnamed" for an empty result; a long result cut and ended by "...".
sanitize_filename(filename) ==
  LET trimmed == trim_matches(trim(replace_dangerous(filename)), {"."})
      named == IF trimmed = <<>> THEN unnamed ELSE trimmed
  IN  IF Len(named) > MAX_FILENAME_LEN
        THEN SubSeq(named, 1, TRUNCATED_LEN) \o <<".", ".", ".">>
        ELSE named

\* The names given to sanitize_filename: the one of the test first, and one
\* of MAX_FILENAME_LEN + 1 characters last.
Filenames ==
  {<<"f", "i", "l", "e", "<", ">", ":", "\"", "|", "?", "*", ".", "m", "p", "4">>,
   <<>>,
   <<"a", ".", "m", "p", "4">>,
   <<" ", "a", " ">>,
   <<".", "a", ".">>,
   <<" ", ".", "a", ".", " ">>,
   <<".", " ", "a">>,
   <<".", ".", ".">>,
   <<" ", " ">>,
   <<"a", "/", "b", "\\", "c">>,
   <<"a", Nul, "b">>,
   <<"\t", ".", "a">>,
   [i \in 1..(MAX_FILENAME_LEN + 1) |-> "a"]}

\* sanitize_filename was not called yet.
NotSanitized == [filename |-> <<>>, result |-> <<"n", "o", "n", "e">>]

\* validate_ffmpeg_args was not called yet.
NotValidated == [args |-> <<>>, result |-> [kind |-> "none", args |-> <<>>]]

\* is_recoverable was not called yet.
NotClassified == [error |-> "none", recoverable |-> FALSE]

\* ---------------------------------------------------------------- statuses
Status(tag, msg) == [tag |-> tag, msg |-> msg]
Starting == Status("Starting", "")
InProgress == Status("InProgress", "")
Completed == Status("Completed", "")
Cancelled == Status("Cancelled", "")
Failed(msg) == Status("Failed", msg)

TerminalTags == {"Completed", "Failed", "Cancelled"}
IsTerminal(s) == s.tag \in TerminalTags

\* tx.send(status).await on the bounded mpsc channel: the status is queued
\* (the queue never holds CHANNEL_CAPACITY statuses here, so it never waits).
\* With the receiver dropped the send returns Err, which the callers ignore.
SendAwaited(q, s, r) == IF r = "dropped" THEN q ELSE Append(q, s)
\* tx.send(status) whose future is dropped without being polled: tokio's
\* Sender::send is an async fn, so nothing is queued.
SendUnpolled(q, s) == q

\* ProgressParser::parse_line returns Some exactly for lines with "frame=".
ContainsFrameMarker(line) == line = "frame= 120 fps=29.7"

\* The statuses queued and not yet received.
Queue(t) == SubSeq(sent[t], nrecv[t] + 1, Len(sent[t]))
\* All Sender handles are dropped: the supervisor task has returned and the
\* poller (tx_clone) has finished or was cancelled.
SendersDropped(t) ==
  /\ sup[t] \in {"done_spawnfail", "done_cancel", "done_exit"}
  /\ poller[t] \in {"none", "done"}
\* recv() returns None.
ChannelClosed(t) == rx[t] = "open" /\ SendersDropped(t) /\ Queue(t) = <<>>

\* ---------------------------------------------------------- f32 values
\* An f32 is a finite number held as an integer in hundredths of its unit
\* (centiseconds, hundredths of 1x, of a frame per second, of a percent), or
\* one of: NaN, +infinity, a finite value of 2^64 or more ("huge": more
\* seconds than a Duration holds), its negative, and a positive value so
\* small ("tiny") that any quotient of a sample by it is huge.
Fin(v) == [k |-> "fin", v |-> v]
NaN == [k |-> "nan", v |-> 0]
Inf == [k |-> "inf", v |-> 0]
Huge == [k |-> "huge", v |-> 0]
NegHuge == [k |-> "neghuge", v |-> 0]
Tiny == [k |-> "tiny", v |-> 0]
\* x > 0.0 and x.is_finite(): comparisons with NaN are false.
Positive(x) == x.k \in {"inf", "huge", "tiny"} \/ (x.k = "fin" /\ x.v > 0)
is_finite(x) == x.k \in {"fin", "huge", "neghuge", "tiny"}

\* Option<T>
None == [some |-> FALSE, val |-> Fin(0)]
Some(x) == [some |-> TRUE, val |-> x]

\* ------------------------------------------------------------- the probes
\* What an ffprobe run can come to: it cannot be launched, it exits with a
\* non-success status, it prints something that does not parse, or it prints
\* a number.  "nan", "inf", "0", "-1" and "1e30" all parse as f32.
ProbeFailures ==
  {[out |-> o, val |-> Fin(0)] : o \in {"launch_failed", "nonzero_exit", "not_number"}}
DurationProbes ==
  ProbeFailures \cup
  {[out |-> "number", val |-> x] :
     x \in {Fin(200), Fin(1000), Fin(0), Fin(-100), NaN, Inf, Huge}}
FrameProbes ==
  ProbeFailures \cup {[out |-> "number", val |-> Fin(n)] : n \in {0, 100}}

\* get_duration: duration_seconds is set only by a successful run whose
\* output parses; Err (the launch failed) and the other failures leave it.
get_duration(probe, duration_seconds) ==
  IF probe.out = "number" THEN Some(probe.val) ELSE duration_seconds
\* get_frame_count(..).await.ok().flatten()
get_frame_count(probe) ==
  IF probe.out = "number" THEN Some(probe.val) ELSE None

\* ProgressParser::new; NoParser before execute() built one.
ProgressParser(duration_seconds, total_frames) ==
  [made |-> TRUE, duration_seconds |-> duration_seconds, total_frames |-> total_frames]
NoParser == [made |-> FALSE, duration_seconds |-> None, total_frames |-> None]

\* ------------------------------------------------------------- the lines
\* A line is held as what each regex of the parser finds in it.
\* frame: the line has no "frame=" at all, has it without digits after it,
\* has a number, or has more digits than a u32 holds.
FrameFields ==
  {[k |-> "nomarker", v |-> 0], [k |-> "nodigits", v |-> 0],
   [k |-> "num", v |-> 30], [k |-> "num", v |-> 250], [k |-> "overflow", v |-> 0]}
\* speed: no match, a number, digits and dots that are no number ("1.2.3"),
\* and a match whose value is tiny
\* ("0.000000000000000000000000000001") or overflows to infinity (40 digits).
SpeedFields ==
  {[k |-> "absent", v |-> 0], [k |-> "num", v |-> 0], [k |-> "num", v |-> 50],
   [k |-> "bad", v |-> 0], [k |-> "tiny", v |-> 0], [k |-> "overflow", v |-> 0]}
\* time: no match, or the four two-digit groups hh, mm, ss, cc.
NoTime == <<>>
TimeFields ==
  {NoTime, <<0, 0, 0, 0>>, <<0, 0, 1, 0>>, <<0, 0, 2, 0>>, <<0, 1, 0, 50>>,
   <<50, 59, 59, 99>>}
\* fps is read as speed is; bitrate and size are the captured text, "" when
\* the regex does not match.
\* The three together: none of them, all of them, or an fps that is no number
\* with a size.
OtherFields ==
  {[fps |-> [k |-> "absent", v |-> 0], bitrate |-> "", size |-> ""],
   [fps |-> [k |-> "num", v |-> 2970], bitrate |-> "1500.5kbits/s", size |-> "1024kB"],
   [fps |-> [k |-> "bad", v |-> 0], bitrate |-> "", size |-> "1024kB"]}
\* "frame=  120 fps=29.7 q=28.0 size=2048kB time=00:00:04.00
\* bitrate=4096.0kbits/s speed=1.2x"
ScenarioLine ==
  [frame |-> [k |-> "num", v |-> 120], fps |-> [k |-> "num", v |-> 2970],
   speed |-> [k |-> "num", v |-> 120], time |-> <<0, 0, 4, 0>>,
   bitrate |-> "4096.0kbits/s", size |-> "2048kB"]
\* The lines parsed: every frame, speed and time without the other three
\* fields, and one line of these with each choice of the other three (the
\* code reads each field by itself).
LineShapes ==
  {[frame |-> f, fps |-> [k |-> "absent", v |-> 0], speed |-> sp, time |-> tm,
    bitrate |-> "", size |-> ""] :
     f \in FrameFields, sp \in SpeedFields, tm \in TimeFields}
  \cup
  {[frame |-> [k |-> "num", v |-> 30], fps |-> o.fps,
    speed |-> [k |-> "num", v |-> 50], time |-> <<0, 0, 1, 0>>,
    bitrate |-> o.bitrate, size |-> o.size] : o \in OtherFields}
  \cup {ScenarioLine}
BlankLine ==
  [frame |-> [k |-> "nomarker", v |-> 0], fps |-> [k |-> "absent", v |-> 0],
   speed |-> [k |-> "absent", v |-> 0], time |-> NoTime, bitrate |-> "", size |-> ""]

\* line.contains("frame=")
contains_frame(l) == l.frame.k # "nomarker"
\* caps[1].parse().unwrap_or(0) of the u32 field
parse_u32(f) == IF f.k = "num" THEN f.v ELSE 0
\* caps[1].parse().unwrap_or(0.0) of an f32 field; without a match the
\* default 0.0 stays.
parse_f32(f) ==
  CASE f.k = "num" -> Fin(f.v)
    [] f.k = "tiny" -> Tiny
    [] f.k = "overflow" -> Inf
    [] OTHER -> Fin(0)
\* hours * 3600.0 + minutes * 60.0 + seconds + centiseconds / 100.0
total_seconds(tm) == tm[1] * 360000 + tm[2] * 6000 + tm[3] * 100 + tm[4]
\* The display string with the seconds printed without their fraction.
format_time_whole_seconds(tm) == <<tm[1], tm[2], tm[3] * 100>>
\* format!("{:02}:{:02}:{:05.2}", hours, minutes, seconds + centiseconds / 100.0):
\* the three numbers printed, the last one in hundredths.
format_time(tm) == <<tm[1], tm[2], tm[3] * 100 + tm[4]>>

\* a * b / c rounded towards zero, for c > 0, without forming a * b (the
\* product of a time of hours by 10000 is past the integers of the checker).
MulDiv(a, b, c) ==
  LET m == IF a < 0 THEN 0 - a ELSE a
      q == (m \div c) * b + ((m % c) * b) \div c
  IN  IF a < 0 THEN 0 - q ELSE q

\* ((total / duration) * 100.0) without the clamp.
PercentageUnclamped(total, d) ==
  CASE d.k = "nan" -> NaN
    [] d.k \in {"inf", "huge"} -> Fin(0)
    [] d.k = "fin" /\ d.v = 0 -> IF total = 0 THEN NaN ELSE Inf
    [] d.k = "fin" /\ d.v < 0 -> Fin(0 - MulDiv(total, 10000, 0 - d.v))
    [] OTHER -> Fin(MulDiv(total, 10000, d.v))
\* f32::clamp(0.0, 100.0): NaN stays NaN.
clamp(x) ==
  CASE x.k = "nan" -> NaN
    [] x.k = "inf" -> Fin(10000)
    [] x.v < 0 -> Fin(0)
    [] x.v > 10000 -> Fin(10000)
    [] OTHER -> x
\* The percentage by duration without its clamp.
PercentageNotClamped(total, d) == PercentageUnclamped(total, d)
\* ((total_seconds / duration) * 100.0).clamp(0.0, 100.0)
Percentage(total, d) == clamp(PercentageUnclamped(total, d))
\* ((current_frame as f32 / total_frames as f32) * 100.0).clamp(0.0, 100.0)
FramePercentage(current_frame, total_frames) ==
  clamp(Fin((current_frame * 10000) \div total_frames))

\* The remaining time taken at speed 1x, whatever the line says.
remaining_at_1x(d, total, speed) ==
  CASE d.k = "nan" -> NaN
    [] d.k = "inf" -> Inf
    [] d.k = "huge" -> Huge
    [] OTHER -> Fin(d.v - total)

\* (duration - total_seconds) / speed, for speed > 0
remaining_seconds(d, total, speed) ==
  CASE d.k = "nan" -> NaN
    [] d.k = "inf" -> IF speed.k = "inf" THEN NaN ELSE Inf
    [] d.k = "huge" ->
         (CASE speed.k = "inf" -> Fin(0) [] speed.k = "tiny" -> Inf [] OTHER -> Huge)
    [] speed.k = "inf" -> Fin(0)
    [] speed.k = "tiny" ->
         (IF d.v > total THEN Huge ELSE IF d.v < total THEN NegHuge ELSE Fin(0))
    [] OTHER -> Fin(MulDiv(d.v - total, 100, speed.v))
\* The remaining time is positive: the quotient above is rounded, the sign
\* is that of duration - total_seconds.
RemainingPositive(d, total, r) ==
  r.k \in {"inf", "huge"} \/ (r.k = "fin" /\ d.k = "fin" /\ d.v > total)

\* The eta without the guards on speed and elapsed time.
EtaUnguarded(duration_seconds, total, speed) ==
  IF duration_seconds.some /\ speed.k # "fin"
    THEN LET r == remaining_seconds(duration_seconds.val, total, speed)
         IN  IF RemainingPositive(duration_seconds.val, total, r) /\ is_finite(r)
               THEN [k |-> IF r.k = "huge" THEN "panic" ELSE "some", v |-> r.v]
               ELSE [k |-> "none", v |-> 0]
    ELSE IF duration_seconds.some /\ duration_seconds.val.k = "fin"
      THEN [k |-> "some",
            v |-> IF speed.v = 0 THEN 0
                  ELSE MulDiv(duration_seconds.val.v - total, 100, speed.v)]
      ELSE [k |-> "none", v |-> 0]

\* The eta of lines 561-567: Some(Duration::from_secs_f32(remaining)) when
\* speed > 0, total_seconds > 0 and remaining is positive and finite;
\* from_secs_f32 panics on a value that a Duration cannot hold.
Eta(duration_seconds, total, speed) ==
  IF duration_seconds.some /\ Positive(speed) /\ total > 0
    THEN LET r == remaining_seconds(duration_seconds.val, total, speed)
         IN  IF RemainingPositive(duration_seconds.val, total, r) /\ is_finite(r)
               THEN [k |-> IF r.k = "huge" THEN "panic" ELSE "some", v |-> r.v]
               ELSE [k |-> "none", v |-> 0]
    ELSE [k |-> "none", v |-> 0]

\* ConversionProgress::default()
DefaultProgress ==
  [percentage |-> Fin(0), current_frame |-> 0, fps |-> Fin(0), speed |-> Fin(0),
   bitrate |-> "", time_elapsed |-> <<>>, eta |-> [k |-> "none", v |-> 0],
   size |-> "", total_frames |-> None]

\* What a call of parse_line comes to.
NotParsed == [kind |-> "NotParsed", progress |-> DefaultProgress]
ReturnedNone == [kind |-> "None", progress |-> DefaultProgress]
Panicked == [kind |-> "Panic", progress |-> DefaultProgress]
ReturnedSome(progress) == [kind |-> "Some", progress |-> progress]

\* ------------------------------------------------------------ app::FFmpegApp
\* The conversions started from the window, in order.
ConvIds == 1 .. MaxConversions
\* Option::None of the progress and of the receiver.
NoProgress == [conv |-> 0, n |-> 0]
NoReceiver == 0

\* ---------------------------------------------------------- state::AppState
\* Uuids, paths, progress values and error texts the methods are called with.
AppTaskIds == 1 .. MaxAppTasks
\* Option::None of a task id, of a path and of a text.
NoTaskId == 0
Absent == "None"
Paths == {"a.mp4", "b.mkv"}
ProgressValues ==
  {DefaultProgress, [DefaultProgress EXCEPT !.current_frame = 50]}
ErrorTexts == {"e1", "e2"}

\* The variants of AppState.  start_time and duration are readings of the
\* clock and are left out.
Idle == [tag |-> "Idle"]
Converting(task_id, progress) ==
  [tag |-> "Converting", task_id |-> task_id, progress |-> progress]
AppCompleted(task_id, output_path) ==
  [tag |-> "Completed", task_id |-> task_id, output_path |-> output_path]
AppFailed(task_id, err) == [tag |-> "Failed", task_id |-> task_id, error |-> err]
AppCancelled(task_id) == [tag |-> "Cancelled", task_id |-> task_id]

is_idle(self) == self.tag = "Idle"
is_converting(self) == self.tag = "Converting"
is_finished(self) == self.tag \in {"Completed", "Failed", "Cancelled"}
get_task_id(self) == IF is_idle(self) THEN NoTaskId ELSE self.task_id

transition_to_converting(task_id) == Converting(task_id, DefaultProgress)
update_progress(self, new_progress) ==
  IF is_converting(self) THEN [self EXCEPT !.progress = new_progress] ELSE self
transition_to_completed(self, output_path) ==
  IF is_converting(self) THEN AppCompleted(self.task_id, output_path) ELSE self
transition_to_failed(self, err) ==
  IF is_converting(self) THEN AppFailed(self.task_id, err) ELSE self
\* transition_to_cancelled that matches every variant that carries a task id.
transition_to_cancelled_any(self) ==
  IF is_idle(self) THEN self ELSE AppCancelled(self.task_id)
transition_to_cancelled(self) ==
  IF is_converting(self) THEN AppCancelled(self.task_id) ELSE self

\* ProgressParser::parse_line
parse_line(self, l) ==
  IF ~contains_frame(l) THEN ReturnedNone
  ELSE
    LET speed == parse_f32(l.speed)
        current_frame == parse_u32(l.frame)
        timed == l.time # NoTime
        total == IF timed THEN total_seconds(l.time) ELSE 0
        eta == IF timed THEN Eta(self.duration_seconds, total, speed)
               ELSE [k |-> "none", v |-> 0]
        percentage ==
          IF ~timed THEN Fin(0)
          ELSE IF self.duration_seconds.some
            THEN Percentage(total, self.duration_seconds.val)
          ELSE IF self.total_frames.some /\ self.total_frames.val.v > 0
            THEN FramePercentage(current_frame, self.total_frames.val.v)
          ELSE Fin(0)
    IN  IF eta.k = "panic" THEN Panicked
        ELSE ReturnedSome(
               [percentage |-> percentage,
                current_frame |-> current_frame,
                fps |-> parse_f32(l.fps),
                speed |-> speed,
                bitrate |-> l.bitrate,
                time_elapsed |-> IF timed THEN format_time(l.time) ELSE <<>>,
                eta |-> eta,
                size |-> l.size,
                total_frames |-> self.total_frames])

Init ==
  /\ cancel_flag = [t \in TaskIds |-> FALSE]
  /\ sup = [t \in TaskIds |-> "none"]
  /\ poller = [t \in TaskIds |-> "none"]
  /\ abortReq = [t \in TaskIds |-> FALSE]
  /\ sent = [t \in TaskIds |-> <<>>]
  /\ nrecv = [t \in TaskIds |-> 0]
  /\ rx = [t \in TaskIds |-> "none"]
  /\ proc = [t \in TaskIds |-> "none"]
  /\ toWrite = [t \in TaskIds |-> 0]
  /\ pipe = [t \in TaskIds |-> 0]
  /\ killIssued = [t \in TaskIds |-> FALSE]
  /\ progressLines = [t \in TaskIds |-> 0]
  /\ readFailed = {}
  /\ cancelPos = [t \in TaskIds |-> "never"]
  /\ cancelCalls = [t \in TaskIds |-> 0]
  /\ errPipe = [t \in TaskIds |-> 0]
  /\ errBlocked = {}
  /\ status = [t \in TaskIds |-> "None"]
  /\ error = [t \in TaskIds |-> ""]
  /\ issued = {}
  /\ active = {}
  /\ permits = MAX_CONCURRENT_CONVERSIONS
  /\ exec = [t \in TaskIds |-> "none"]
  /\ events = [t \in TaskIds |-> [k \in EventKinds |-> 0]]
  /\ interrupts = 0
  /\ cancelledRunning = {}
  /\ timedOut = {}
  /\ cancelledEarly = {}
  /\ timedOutRunning = {}
  /\ calls = 0
  /\ returned = NoCall
  /\ versionRuns = 0
  /\ parser = NoParser
  /\ parsedLine = BlankLine
  /\ snapshot = NotParsed
  /\ classified = NotClassified
  /\ diagnosed = NotDiagnosed
  /\ validated = NotValidated
  /\ sanitized = NotSanitized
  /\ state = Idle
  /\ input_file = Absent
  /\ output_file = Absent
  /\ error_message = Absent
  /\ progress_changed = FALSE
  /\ appCall = [method |-> "new", found |-> Idle]
  /\ app = [input_file |-> FALSE, output_folder |-> FALSE, is_converting |-> FALSE,
            progress |-> NoProgress, conversion_receiver |-> NoReceiver,
            status_message |-> "Ready", error_message |-> Absent]
  /\ conv = [c \in ConvIds |-> [task |-> "none", ffmpeg |-> "none", lines |-> 0,
                                 lateSends |-> 0]]
  /\ chan = [ch \in ConvIds |-> [alive |-> FALSE, queue |-> <<>>]]
  /\ started = 0
  /\ left = {}
  /\ staleApplied = {}

\* ------------------------------------------------------------- subprocess
\* The subprocess writes one line to its stdout pipe.
ProcWrite(t) ==
  /\ proc[t] = "running"
  /\ t \notin errBlocked
  /\ toWrite[t] > 0
  /\ toWrite' = [toWrite EXCEPT ![t] = @ - 1]
  /\ pipe' = [pipe EXCEPT ![t] = @ + 1]
  /\ UNCHANGED <<cancel_flag, sup, poller, abortReq, sent, nrecv, rx, proc,
                 killIssued, progressLines, readFailed, cancelPos, cancelCalls, errPipe, errBlocked, svcVars, obsVars, uiVars>>

\* The subprocess writes one line to its stderr pipe (both streams are
\* Stdio::piped()).  The pipe holds StderrPipeLines lines; a write to a full
\* pipe blocks the subprocess until the pipe is read.
ProcWriteStderr(t) ==
  /\ proc[t] = "running"
  /\ t \notin errBlocked
  /\ IF errPipe[t] < StderrPipeLines
       THEN /\ errPipe' = [errPipe EXCEPT ![t] = @ + 1]
            /\ UNCHANGED errBlocked
       ELSE /\ errBlocked' = errBlocked \cup {t}
            /\ UNCHANGED errPipe
  /\ UNCHANGED <<cancel_flag, sup, poller, abortReq, sent, nrecv, rx, proc, toWrite,
                 pipe, killIssued, progressLines, readFailed, cancelPos, cancelCalls,
                 svcVars, obsVars, uiVars>>

\* The subprocess exits by itself, with a success or a non-success status.
ProcExit(t, ok) ==
  /\ proc[t] = "running"
  /\ t \notin errBlocked
  /\ proc' = [proc EXCEPT ![t] = IF ok THEN "success" ELSE "failure"]
  /\ UNCHANGED <<cancel_flag, sup, poller, abortReq, sent, nrecv, rx, toWrite,
                 pipe, killIssued, progressLines, readFailed, cancelPos, cancelCalls, errPipe, errBlocked, svcVars, obsVars, uiVars>>

\* The termination signal reaches the subprocess: a running one ends with a
\* non-success status.
Signalled(p) == IF p = "running" THEN "failure" ELSE p

\* ------------------------------------------------ ConversionTask::cancel
\* cancel that inverts the flag instead of setting it.
cancel_toggling(flags, t) == [flags EXCEPT ![t] = ~@]
\* cancel on one flag shared by all tasks.
cancel_shared(flags, t) == [u \in TaskIds |-> TRUE]
\* The flag of task t is set; the flags of the other tasks are left alone.
cancel(flags, t) == [flags EXCEPT ![t] = TRUE]
\* The supervisor's position at the caller's first cancel() of task t.
FirstCancelPos(t) ==
  [cancelPos EXCEPT ![t] =
     IF cancel_flag[t] THEN @
     ELSE IF sup[t] = "read" /\ proc[t] = "running" THEN "streaming"
     ELSE sup[t]]

\* SupStart that starts the cancellation poller before it knows whether the
\* spawn succeeded.
SupStartPollerOnFailure(t, spawned, notFound) ==
  /\ sup[t] = "start"
  /\ IF spawned
       THEN /\ sent' = [sent EXCEPT ![t] = SendUnpolled(@, Starting)]
            /\ proc' = [proc EXCEPT ![t] = "running"]
            /\ toWrite' = [toWrite EXCEPT ![t] = MaxLines]
            /\ poller' = [poller EXCEPT ![t] = "poll"]
            /\ sup' = [sup EXCEPT ![t] = "read"]
       ELSE /\ sent' = [sent EXCEPT ![t] =
                 SendAwaited(SendUnpolled(@, Starting),
                   Failed(IF notFound THEN "FFmpeg not found"
                                      ELSE "Failed to start FFmpeg"), rx[t])]
            /\ sup' = [sup EXCEPT ![t] = "done_spawnfail"]
            /\ poller' = [poller EXCEPT ![t] = "poll"]
            /\ UNCHANGED <<proc, toWrite>>
  /\ UNCHANGED <<cancel_flag, abortReq, nrecv, rx, pipe, killIssued,
                 progressLines, readFailed, cancelPos, cancelCalls, errPipe, errBlocked, svcVars, obsVars, uiVars>>

\* --------------------------------------- ConversionTask::execute (spawned)
\* The spawned future up to the first await of the output loop: Starting is
\* handed to send() and the future dropped; ffmpeg is spawned; on success the
\* cancellation_task is spawned, on failure Failed is sent and the task ends.
SupStart(t, spawned, notFound) ==
  /\ sup[t] = "start"
  /\ IF spawned
       THEN /\ sent' = [sent EXCEPT ![t] = SendUnpolled(@, Starting)]
            /\ proc' = [proc EXCEPT ![t] = "running"]
            /\ toWrite' = [toWrite EXCEPT ![t] = MaxLines]
            /\ poller' = [poller EXCEPT ![t] = "poll"]
            /\ sup' = [sup EXCEPT ![t] = "read"]
       ELSE /\ sent' = [sent EXCEPT ![t] =
                 SendAwaited(SendUnpolled(@, Starting),
                   Failed(IF notFound THEN "FFmpeg not found"
                                      ELSE "Failed to start FFmpeg"), rx[t])]
            /\ sup' = [sup EXCEPT ![t] = "done_spawnfail"]
            /\ UNCHANGED <<proc, toWrite, poller>>
  /\ UNCHANGED <<cancel_flag, abortReq, nrecv, rx, pipe, killIssued,
                 progressLines, readFailed, cancelPos, cancelCalls, errPipe, errBlocked, svcVars, obsVars, uiVars>>

\* cancellation_task.abort(): a suspended poller is dropped at once; one that
\* is being polled is dropped when it next yields.
Abort(p) == IF p \in {"sleep", "killing"} THEN "done" ELSE p
AbortPending(p) == p \in {"poll", "send"}

\* One pass of the output loop on a line: the flag is checked, and when it is
\* false the line is parsed and InProgress handed to send() without await.
\* A true flag breaks the loop, and the poller is aborted.
SupReadLine(t, line) ==
  /\ sup[t] = "read"
  /\ pipe[t] > 0
  /\ pipe' = [pipe EXCEPT ![t] = @ - 1]
  /\ IF cancel_flag[t]
       THEN /\ sup' = [sup EXCEPT ![t] = "check"]
            /\ abortReq' = [abortReq EXCEPT ![t] = AbortPending(poller[t])]
            /\ poller' = [poller EXCEPT ![t] = Abort(@)]
            /\ UNCHANGED <<sent, progressLines>>
       ELSE /\ IF ContainsFrameMarker(line)
                 THEN /\ sent' = [sent EXCEPT ![t] = SendUnpolled(@, InProgress)]
                      /\ progressLines' = [progressLines EXCEPT ![t] = @ + 1]
                 ELSE UNCHANGED <<sent, progressLines>>
            /\ UNCHANGED <<sup, abortReq, poller>>
  /\ UNCHANGED <<cancel_flag, nrecv, rx, proc, toWrite, killIssued, cancelPos, cancelCalls, errPipe, errBlocked,
                 readFailed, svcVars, obsVars, uiVars>>

\* read_line returns Ok(0) (the subprocess closed its stdout) or Err (a line
\* that is not UTF-8): the loop ends and the poller is aborted.
SupReadEnd(t, readError) ==
  /\ sup[t] = "read"
  /\ IF readError
       THEN /\ pipe[t] > 0
            /\ pipe' = [pipe EXCEPT ![t] = @ - 1]
       ELSE /\ pipe[t] = 0
            /\ proc[t] \in {"success", "failure"}
            /\ UNCHANGED pipe
  /\ sup' = [sup EXCEPT ![t] = "check"]
  /\ abortReq' = [abortReq EXCEPT ![t] = AbortPending(poller[t])]
  /\ poller' = [poller EXCEPT ![t] = Abort(@)]
  /\ readFailed' = IF readError THEN readFailed \cup {t} ELSE readFailed
  /\ UNCHANGED <<cancel_flag, sent, nrecv, rx, proc, toWrite, killIssued,
                 progressLines, cancelPos, cancelCalls, errPipe, errBlocked, svcVars, obsVars, uiVars>>

\* SupPostCheck without the flag check after the loop: the reader always goes
\* on to child.wait() and sends Completed or Failed.
SupPostCheckIgnoringFlag(t) ==
  /\ sup[t] = "check"
  /\ sup' = [sup EXCEPT ![t] = "wait"]
  /\ UNCHANGED <<cancel_flag, poller, abortReq, sent, nrecv, rx, proc, toWrite,
                 pipe, killIssued, progressLines, readFailed, cancelPos, cancelCalls, errPipe, errBlocked, svcVars, obsVars, uiVars>>

\* The flag check after the loop: a true flag returns without a status.
SupPostCheck(t) ==
  /\ sup[t] = "check"
  /\ sup' = [sup EXCEPT ![t] = IF cancel_flag[t] THEN "done_cancel" ELSE "wait"]
  /\ UNCHANGED <<cancel_flag, poller, abortReq, sent, nrecv, rx, proc, toWrite,
                 pipe, killIssued, progressLines, readFailed, cancelPos, cancelCalls, errPipe, errBlocked, svcVars, obsVars, uiVars>>

\* The status sent for the result of child.wait().
ExitStatus(p, waitError) ==
  IF waitError THEN Failed("Process execution error")
  ELSE IF p = "success" THEN Completed
  ELSE Failed("FFmpeg error")

\* child.wait().await returns; Completed or Failed is sent and the task ends.
SupWait(t, waitError) ==
  /\ sup[t] = "wait"
  /\ proc[t] \in {"success", "failure"}
  /\ sent' = [sent EXCEPT ![t] = SendAwaited(@, ExitStatus(proc[t], waitError), rx[t])]
  /\ sup' = [sup EXCEPT ![t] = "done_exit"]
  /\ errPipe' = [errPipe EXCEPT ![t] =
                   IF ~waitError /\ proc[t] = "failure"
                     THEN @ - Min(@, MAX_ERROR_LINES) ELSE @]
  /\ UNCHANGED <<cancel_flag, poller, abortReq, nrecv, rx, proc, toWrite, pipe,
                 killIssued, progressLines, readFailed, cancelPos, cancelCalls,
                 errBlocked, svcVars, obsVars, uiVars>>

\* --------------------------------------------------- cancellation_task
\* The poller reads the flag.  True: the kill command is spawned and its
\* output awaited.  False: it sleeps CANCELLATION_CHECK_INTERVAL_MS.  An
\* abort requested meanwhile takes effect at that await.
PollerCheck(t) ==
  /\ poller[t] = "poll"
  /\ IF cancel_flag[t]
       THEN /\ killIssued' = [killIssued EXCEPT ![t] = TRUE]
            /\ proc' = [proc EXCEPT ![t] = Signalled(@)]
            /\ poller' = [poller EXCEPT ![t] =
                            IF abortReq[t] THEN "done" ELSE "killing"]
       ELSE /\ poller' = [poller EXCEPT ![t] =
                            IF abortReq[t] THEN "done" ELSE "sleep"]
            /\ UNCHANGED <<killIssued, proc>>
  /\ abortReq' = [abortReq EXCEPT ![t] = FALSE]
  /\ UNCHANGED <<cancel_flag, sup, sent, nrecv, rx, toWrite, pipe,
                 progressLines, readFailed, cancelPos, cancelCalls, errPipe, errBlocked, svcVars, obsVars, uiVars>>

\* An aborted poller that was woken but not yet polled again is dropped.
PollerDropped(t) ==
  /\ poller[t] \in {"poll", "send"}
  /\ abortReq[t]
  /\ poller' = [poller EXCEPT ![t] = "done"]
  /\ abortReq' = [abortReq EXCEPT ![t] = FALSE]
  /\ UNCHANGED <<cancel_flag, sup, sent, nrecv, rx, proc, toWrite, pipe,
                 killIssued, progressLines, readFailed, cancelPos, cancelCalls, errPipe, errBlocked, svcVars, obsVars, uiVars>>

\* The sleep ends.
PollerWake(t) ==
  /\ poller[t] = "sleep"
  /\ poller' = [poller EXCEPT ![t] = "poll"]
  /\ UNCHANGED <<cancel_flag, sup, abortReq, sent, nrecv, rx, proc, toWrite,
                 pipe, killIssued, progressLines, readFailed, cancelPos, cancelCalls, errPipe, errBlocked, svcVars, obsVars, uiVars>>

\* The kill command has ended and the poller is polled again.
PollerKillDone(t) ==
  /\ poller[t] = "killing"
  /\ poller' = [poller EXCEPT ![t] = "send"]
  /\ UNCHANGED <<cancel_flag, sup, abortReq, sent, nrecv, rx, proc, toWrite,
                 pipe, killIssued, progressLines, readFailed, cancelPos, cancelCalls, errPipe, errBlocked, svcVars, obsVars, uiVars>>

\* tx_clone.send(Cancelled).await, then break.
PollerSend(t) ==
  /\ poller[t] = "send"
  /\ sent' = [sent EXCEPT ![t] = SendAwaited(@, Cancelled, rx[t])]
  /\ poller' = [poller EXCEPT ![t] = "done"]
  /\ abortReq' = [abortReq EXCEPT ![t] = FALSE]
  /\ UNCHANGED <<cancel_flag, sup, nrecv, rx, proc, toWrite, pipe, killIssued,
                 progressLines, readFailed, cancelPos, cancelCalls, errPipe, errBlocked, svcVars, obsVars, uiVars>>

\* Every step of a started supervisor, its poller and its subprocess.
SupervisorStep(t) ==
  \/ \E spawned, notFound \in BOOLEAN : SupStart(t, spawned, notFound)
  \/ \E line \in Lines : SupReadLine(t, line)
  \/ \E readError \in BOOLEAN : SupReadEnd(t, readError)
  \/ SupPostCheck(t)
  \/ \E waitError \in BOOLEAN : SupWait(t, waitError)
  \/ PollerCheck(t)
  \/ PollerDropped(t)
  \/ PollerWake(t)
  \/ PollerKillDone(t)
  \/ PollerSend(t)
  \/ ProcWrite(t)
  \/ ProcWriteStderr(t)
  \/ \E ok \in BOOLEAN : ProcExit(t, ok)

\* ------------------------------------------------- a task driven directly
\* ConversionTask::execute returns Ok(rx): the channel exists and the
\* supervisor future is spawned.
Execute(t) ==
  /\ sup[t] = "none"
  /\ rx[t] = "none"
  /\ sup' = [sup EXCEPT ![t] = "start"]
  /\ rx' = [rx EXCEPT ![t] = "open"]
  /\ UNCHANGED <<cancel_flag, poller, abortReq, sent, nrecv, proc, toWrite,
                 pipe, killIssued, progressLines, readFailed, cancelPos, cancelCalls, errPipe, errBlocked, svcVars, obsVars, uiVars>>

\* The caller calls task.cancel().
Cancel(t) ==
  /\ cancelCalls[t] < MaxCancels
  /\ cancelCalls' = [cancelCalls EXCEPT ![t] = @ + 1]
  /\ cancel_flag' = cancel(cancel_flag, t)
  /\ cancelPos' = FirstCancelPos(t)
  /\ UNCHANGED <<sup, poller, abortReq, sent, nrecv, rx, proc, toWrite, pipe,
                 killIssued, progressLines, readFailed, errPipe, errBlocked,
                 svcVars, obsVars, uiVars>>

\* The consumer takes the next status from the receiver.
Recv(t) ==
  /\ rx[t] = "open"
  /\ nrecv[t] < Len(sent[t])
  /\ nrecv' = [nrecv EXCEPT ![t] = @ + 1]
  /\ UNCHANGED <<cancel_flag, sup, poller, abortReq, sent, rx, proc, toWrite,
                 pipe, killIssued, progressLines, readFailed, cancelPos, cancelCalls, errPipe, errBlocked, svcVars, obsVars, uiVars>>

Next ==
  \E t \in DirectIds :
    \/ Execute(t)
    \/ Cancel(t)
    \/ Recv(t)
    \/ SupervisorStep(t)

Spec == Init /\ [][Next]_vars

\* The three parties of one conversion: the spawned future of execute(), the
\* cancellation_task it spawns, and the ffmpeg subprocess.
ReaderStep(t) ==
  \/ \E spawned, notFound \in BOOLEAN : SupStart(t, spawned, notFound)
  \/ \E line \in Lines : SupReadLine(t, line)
  \/ \E readError \in BOOLEAN : SupReadEnd(t, readError)
  \/ SupPostCheck(t)
  \/ \E waitError \in BOOLEAN : SupWait(t, waitError)
PollerStep(t) ==
  \/ PollerCheck(t)
  \/ PollerDropped(t)
  \/ PollerWake(t)
  \/ PollerKillDone(t)
  \/ PollerSend(t)
ProcStep(t) ==
  \/ ProcWrite(t)
  \/ ProcWriteStderr(t)
  \/ \E ok \in BOOLEAN : ProcExit(t, ok)

\* Spec under fair scheduling: the tokio runtime polls every task that can
\* go on, and the operating system runs a subprocess that is not blocked.
\* The calls of the consumer (cancel, recv) are under no obligation.
FairSpec ==
  /\ Init /\ [][Next]_vars
  /\ \A t \in DirectIds :
       /\ WF_vars(ReaderStep(t))
       /\ WF_vars(PollerStep(t))
       /\ WF_vars(ProcStep(t))

\* ------------------------------------------------------ ResourceManager
can_start_conversion == Cardinality(active) < MAX_CONCURRENT_CONVERSIONS
add_task(a, t) == a \cup {t}
\* remove_task that removes nothing: the entry stays in active_tasks.
remove_task_keeping(a, t) == a
remove_task(a, t) == a \ {t}

\* ----------------------------------------------------- ConversionService
RegistryTerminal == {"Completed", "Failed", "Cancelled"}
HasEntry(t) == status[t] # "None"
\* tasks.get_mut(&task_id) followed by an assignment of the status.
SetStatus(st, t, new) == IF st[t] # "None" THEN [st EXCEPT ![t] = new] ELSE st
SetError(er, t, msg) == IF status[t] # "None" THEN [er EXCEPT ![t] = msg] ELSE er
Emit(ev, t, kind) == [ev EXCEPT ![t][kind] = @ + 1]

\* start_conversion is accepted: the entry is inserted as Queued,
\* ConversionRequested is sent and execute_conversion is spawned.
InsertAndSpawn ==
  \E t \in TaskIds \ issued :
    /\ \A u \in TaskIds \ issued : t <= u
    /\ issued' = issued \cup {t}
    /\ status' = [status EXCEPT ![t] = "Queued"]
    /\ events' = Emit(events, t, "Requested")
    /\ exec' = [exec EXCEPT ![t] = "acquire"]

start_conversion ==
  /\ can_start_conversion
  /\ InsertAndSpawn
  /\ UNCHANGED <<error, active, permits, interrupts, cancelledRunning, cancelledEarly, timedOutRunning,
                 timedOut, supVars, obsVars, uiVars>>

\* validate_ffmpeg runs `ffmpeg -version` and waits for it: Ok only when the
\* subprocess could be launched and exited with success.
VersionChecks == {"launch_failed", "nonzero_exit", "success"}
validate_ffmpeg(check) == check = "success"

\* What start_conversion returns: the checks in the order of the code.
StartResult(check, valid) ==
  IF ~can_start_conversion THEN "MaxConcurrentReached"
  ELSE IF ~validate_ffmpeg(check) THEN "FFmpegNotFound"
  ELSE IF ~valid THEN "InvalidSettings"
  ELSE "Ok"

\* The outcomes of `ffmpeg -version` and of task.validate() with which
\* start_conversion returns an error in this state.
Rejections ==
  {in \in VersionChecks \X BOOLEAN : StartResult(in[1], in[2]) # "Ok"}

\* start_conversion is rejected: MaxConcurrentReached, FFmpegNotFound or
\* InvalidSettings is returned before anything is inserted or spawned.
StartRejected ==
  /\ Rejections # {}
  /\ UNCHANGED vars

\* start_conversion that inserts the entry and spawns before it validates.
StartCallInsertFirst(check, valid) ==
  /\ calls < MaxCalls
  /\ calls' = calls + 1
  /\ returned' = [call |-> "start_conversion", result |-> StartResult(check, valid)]
  /\ versionRuns' = IF can_start_conversion /\ check # "launch_failed"
                      THEN versionRuns + 1 ELSE versionRuns
  /\ InsertAndSpawn
  /\ UNCHANGED <<error, active, permits, interrupts, cancelledRunning, cancelledEarly, timedOutRunning,
                 timedOut, supVars, parser, parsedLine, snapshot, libVars, uiVars>>

\* One call of start_conversion with its result observed: `check` is the
\* outcome of `ffmpeg -version`, which is run only when the resource check
\* passed, and `valid` the outcome of task.validate().
StartCall(check, valid) ==
  /\ calls < MaxCalls
  /\ calls' = calls + 1
  /\ returned' = [call |-> "start_conversion", result |-> StartResult(check, valid)]
  /\ versionRuns' = IF can_start_conversion /\ check # "launch_failed"
                      THEN versionRuns + 1 ELSE versionRuns
  /\ IF StartResult(check, valid) = "Ok"
       THEN InsertAndSpawn
       ELSE UNCHANGED <<issued, status, events, exec>>
  /\ UNCHANGED <<error, active, permits, interrupts, cancelledRunning, cancelledEarly, timedOutRunning,
                 timedOut, supVars, parser, parsedLine, snapshot, libVars, uiVars>>

\* ExecAcquire without the semaphore: the task goes on without waiting for a
\* free permit.
ExecAcquireWithoutPermit(t) ==
  /\ exec[t] = "acquire"
  /\ IF HasEntry(t)
       THEN /\ permits' = permits - 1
            /\ status' = [status EXCEPT ![t] = "Running"]
            /\ error' = [error EXCEPT ![t] = ""]
            /\ events' = Emit(events, t, "Started")
            /\ exec' = [exec EXCEPT ![t] = "probing"]
       ELSE /\ exec' = [exec EXCEPT ![t] = "exited"]
            /\ UNCHANGED <<permits, status, error, events>>
  /\ UNCHANGED <<issued, active, interrupts, cancelledRunning, cancelledEarly, timedOutRunning, timedOut, supVars, obsVars, uiVars>>

\* execute_conversion acquires a permit and looks the task up: an entry
\* becomes Running and ConversionStarted is sent; without an entry the
\* function returns, which drops the permit.
ExecAcquire(t) ==
  /\ exec[t] = "acquire"
  /\ permits > 0
  /\ IF HasEntry(t)
       THEN /\ permits' = permits - 1
            /\ status' = [status EXCEPT ![t] = "Running"]
            /\ error' = [error EXCEPT ![t] = ""]
            /\ events' = Emit(events, t, "Started")
            /\ exec' = [exec EXCEPT ![t] = "probing"]
       ELSE /\ exec' = [exec EXCEPT ![t] = "exited"]
            /\ UNCHANGED <<permits, status, error, events>>
  /\ UNCHANGED <<issued, active, interrupts, cancelledRunning, cancelledEarly, timedOutRunning, timedOut, supVars, obsVars, uiVars>>

\* The registry status becomes Failed and ConversionFailed is sent.
handle_conversion_error(t, msg) ==
  /\ status' = SetStatus(status, t, "Failed")
  /\ error' = SetError(error, t, msg)
  /\ events' = Emit(events, t, "Failed")

\* The registry status becomes Completed and ConversionCompleted is sent.
handle_conversion_completion(t) ==
  /\ status' = SetStatus(status, t, "Completed")
  /\ error' = SetError(error, t, "")
  /\ events' = Emit(events, t, "Completed")

\* The end of execute_conversion: remove_task, and the permit is dropped.
ExecReturn(t) ==
  /\ active' = remove_task(active, t)
  /\ permits' = permits + 1
  /\ exec' = [exec EXCEPT ![t] = "exited"]

\* The receiver is dropped with the future that owns it: what it had queued
\* is freed with it.
DropReceiver(t) ==
  /\ rx' = [rx EXCEPT ![t] = IF @ = "open" THEN "dropped" ELSE @]
  /\ sent' = [sent EXCEPT ![t] = <<>>]
  /\ nrecv' = [nrecv EXCEPT ![t] = 0]

\* task.execute() returns.  Err (validation or argument building failed):
\* run_conversion_with_progress returns the error.  Ok(rx): the supervisor
\* is spawned and the task is added to the resource manager.
RunExecute(t, valid) ==
  /\ exec[t] = "probing"
  /\ IF valid
       THEN /\ sup' = [sup EXCEPT ![t] = "start"]
            /\ rx' = [rx EXCEPT ![t] = "open"]
            /\ active' = add_task(active, t)
            /\ exec' = [exec EXCEPT ![t] = "monitor"]
            /\ UNCHANGED <<status, error, events, permits>>
       ELSE /\ handle_conversion_error(t, "Invalid input")
            /\ ExecReturn(t)
            /\ UNCHANGED <<sup, rx>>
  /\ UNCHANGED <<issued, interrupts, cancelledRunning, cancelledEarly, timedOutRunning, timedOut, cancel_flag,
                 poller, abortReq, sent, nrecv, proc, toWrite, pipe,
                 killIssued, progressLines, readFailed, cancelPos, cancelCalls, errPipe, errBlocked>>

ExecExecute(t, valid) ==
  /\ RunExecute(t, valid)
  /\ UNCHANGED <<obsVars, uiVars>>

\* The same step with the result of task.execute() observed.
ExecuteCall(t, valid) ==
  /\ calls < MaxCalls
  /\ calls' = calls + 1
  /\ returned' = [call |-> "execute",
                  result |-> IF valid THEN "Ok" ELSE "InvalidInput"]
  /\ RunExecute(t, valid)
  /\ UNCHANGED <<versionRuns, parser, parsedLine, snapshot, libVars, uiVars>>

\* One pass of the monitor loop of run_conversion_with_progress on a
\* received status, and what execute_conversion does with its result.
ExecRecv(t) ==
  /\ exec[t] = "monitor"
  /\ Queue(t) # <<>>
  /\ LET s == Head(Queue(t)) IN
       CASE s.tag = "Starting" ->
              /\ nrecv' = [nrecv EXCEPT ![t] = @ + 1]
              /\ UNCHANGED <<status, error, events, active, permits, exec, rx, sent>>
         [] s.tag = "InProgress" ->
              /\ nrecv' = [nrecv EXCEPT ![t] = @ + 1]
              /\ status' = SetStatus(status, t, "Running")
              /\ error' = SetError(error, t, "")
              /\ events' = Emit(events, t, "Progress")
              /\ UNCHANGED <<active, permits, exec, rx, sent>>
         [] s.tag = "Completed" ->
              /\ handle_conversion_completion(t)
              /\ ExecReturn(t)
              /\ DropReceiver(t)
         [] s.tag = "Failed" ->
              /\ handle_conversion_error(t, s.msg)
              /\ ExecReturn(t)
              /\ DropReceiver(t)
         [] s.tag = "Cancelled" ->
              /\ handle_conversion_error(t, "Conversion was cancelled")
              /\ ExecReturn(t)
              /\ DropReceiver(t)
  /\ UNCHANGED <<issued, interrupts, cancelledRunning, cancelledEarly, timedOutRunning, timedOut, cancel_flag, sup, poller, abortReq,
                 proc, toWrite, pipe, killIssued, progressLines, readFailed, cancelPos, cancelCalls, errPipe, errBlocked, obsVars, uiVars>>

\* recv() returns None: the channel closed without a terminal status.
ExecRecvClosed(t) ==
  /\ exec[t] = "monitor"
  /\ ChannelClosed(t)
  /\ handle_conversion_error(t, "Conversion process ended unexpectedly")
  /\ ExecReturn(t)
  /\ DropReceiver(t)
  /\ UNCHANGED <<issued, interrupts, cancelledRunning, cancelledEarly, timedOutRunning, timedOut, cancel_flag, sup, poller, abortReq,
                 proc, toWrite, pipe, killIssued, progressLines, readFailed, cancelPos, cancelCalls, errPipe, errBlocked, obsVars, uiVars>>

\* ExecTimeout that runs handle_conversion_timeout without dropping the
\* conversion future: the monitor loop goes on receiving.
ExecTimeoutKeepMonitoring(t) ==
  /\ exec[t] \in {"probing", "monitor"}
  /\ interrupts < MaxInterrupts
  /\ interrupts' = interrupts + 1
  /\ timedOut' = timedOut \cup {t}
  /\ UNCHANGED timedOutRunning
  /\ cancel_flag' = IF t \in active THEN cancel(cancel_flag, t) ELSE cancel_flag
  /\ status' = SetStatus(status, t, "Failed")
  /\ error' = SetError(error, t, "Conversion timed out")
  /\ events' = Emit(events, t, "Failed")
  /\ UNCHANGED <<active, permits, exec, rx, sent, nrecv>>
  /\ UNCHANGED <<issued, cancelledRunning, cancelledEarly, obsVars, sup, poller, abortReq, proc, toWrite,
                 pipe, killIssued, progressLines, readFailed, cancelPos, cancelCalls, errPipe, errBlocked, uiVars>>

\* The timeout of execute_conversion elapses: the conversion future (and the
\* receiver it holds) is dropped and handle_conversion_timeout runs: it takes
\* the task out of active_tasks and sets its flag, the status becomes Failed
\* and ConversionFailed is sent.
ExecTimeout(t) ==
  /\ exec[t] \in {"probing", "monitor"}
  /\ interrupts < MaxInterrupts
  /\ interrupts' = interrupts + 1
  /\ timedOut' = timedOut \cup {t}
  /\ UNCHANGED timedOutRunning
  /\ cancel_flag' = IF t \in active THEN cancel(cancel_flag, t) ELSE cancel_flag
  /\ status' = SetStatus(status, t, "Failed")
  /\ error' = SetError(error, t, "Conversion timed out")
  /\ events' = Emit(events, t, "Failed")
  /\ ExecReturn(t)
  /\ DropReceiver(t)
  /\ UNCHANGED <<issued, cancelledRunning, cancelledEarly, obsVars, sup, poller, abortReq, proc, toWrite,
                 pipe, killIssued, progressLines, readFailed, cancelPos, cancelCalls, errPipe, errBlocked, uiVars>>

\* ExecTimeout, with the tasks noted whose subprocess was running when the
\* timeout elapsed.
ExecTimeoutObserved(t) ==
  /\ exec[t] \in {"probing", "monitor"}
  /\ interrupts < MaxInterrupts
  /\ interrupts' = interrupts + 1
  /\ timedOut' = timedOut \cup {t}
  /\ timedOutRunning' =
       IF proc[t] = "running" THEN timedOutRunning \cup {t} ELSE timedOutRunning
  /\ cancel_flag' = IF t \in active THEN cancel(cancel_flag, t) ELSE cancel_flag
  /\ status' = SetStatus(status, t, "Failed")
  /\ error' = SetError(error, t, "Conversion timed out")
  /\ events' = Emit(events, t, "Failed")
  /\ ExecReturn(t)
  /\ DropReceiver(t)
  /\ UNCHANGED <<issued, cancelledRunning, cancelledEarly, obsVars, sup, poller, abortReq, proc, toWrite,
                 pipe, killIssued, progressLines, readFailed, cancelPos, cancelCalls, errPipe, errBlocked, uiVars>>

\* The task is taken out of active_tasks and its flag set; an entry of the
\* registry becomes Cancelled, whatever its status, and ConversionCancelled is
\* sent.  Without an entry TaskNotFound is returned.
cancel_conversion(t) ==
  /\ interrupts < MaxInterrupts
  /\ interrupts' = interrupts + 1
  /\ active' = remove_task(active, t)
  /\ cancel_flag' = IF t \in active THEN cancel(cancel_flag, t) ELSE cancel_flag
  /\ IF HasEntry(t)
       THEN /\ status' = [status EXCEPT ![t] = "Cancelled"]
            /\ error' = [error EXCEPT ![t] = ""]
            /\ events' = Emit(events, t, "Cancelled")
       ELSE UNCHANGED <<status, error, events>>
  /\ cancelledRunning' =
       IF status[t] = "Running" /\ t \in active /\ proc[t] = "running"
         THEN cancelledRunning \cup {t} ELSE cancelledRunning
  /\ cancelledEarly' =
       IF status[t] \in {"Queued", "Running"} /\ exec[t] \in {"acquire", "probing"}
         THEN cancelledEarly \cup {t} ELSE cancelledEarly
  /\ UNCHANGED <<issued, permits, exec, sup, poller, abortReq, sent,
                 nrecv, rx, proc, toWrite, pipe, killIssued, progressLines, readFailed,
                 cancelPos, cancelCalls, errPipe, errBlocked, timedOut, timedOutRunning, obsVars, uiVars>>

\* The number of registry entries whose status is Running.
get_active_task_count ==
  Cardinality({t \in TaskIds : status[t] = "Running"})

\* get_task_status: the status of the entry, "None" without an entry.
get_task_status(t) == status[t]

\* removed_count of cleanup_completed_tasks: tasks.len() before the retain
\* minus tasks.len() after it.
removed_count ==
  Cardinality({t \in TaskIds : status[t] # "None"})
    - Cardinality({t \in TaskIds : status'[t] # "None"})

\* cleanup_completed_tasks clearing the whole registry.
cleanup_all_tasks ==
  /\ status' = [t \in TaskIds |-> "None"]
  /\ error' = [t \in TaskIds |-> ""]
  /\ UNCHANGED <<issued, active, permits, exec, events, interrupts,
                 cancelledRunning, cancelledEarly, timedOutRunning, timedOut, supVars, obsVars, uiVars>>

\* Entries with a Completed, Failed or Cancelled status are removed.
cleanup_completed_tasks ==
  /\ status' = [t \in TaskIds |->
                  IF status[t] \in RegistryTerminal THEN "None" ELSE status[t]]
  /\ error' = [t \in TaskIds |->
                  IF status[t] \in RegistryTerminal THEN "" ELSE error[t]]
  /\ UNCHANGED <<issued, active, permits, exec, events, interrupts,
                 cancelledRunning, cancelledEarly, timedOutRunning, timedOut, supVars, obsVars, uiVars>>

\* --------------------------- the supervisor between two registry steps
\* In SvcSpec a supervisor runs from one point the registry can observe to
\* the next without interleaving: the steps of SupervisorStep that each of
\* these actions runs in a row are named with it.

\* SupReadLine (after a ProcWrite) or SupReadEnd with the flag true, then
\* PollerDropped and SupPostCheck: the reader sees the flag, aborts the poller
\* and returns; no signal is sent.
SupRunCancelled(t) ==
  /\ sup[t] = "read"
  /\ cancel_flag[t]
  /\ sup' = [sup EXCEPT ![t] = "done_cancel"]
  /\ poller' = [poller EXCEPT ![t] = "done"]
  /\ UNCHANGED <<cancel_flag, abortReq, sent, nrecv, rx, proc, toWrite, pipe,
                 killIssued, progressLines, readFailed, cancelPos, cancelCalls, errPipe, errBlocked, svcVars, obsVars, uiVars>>

\* PollerCheck with the flag true, PollerKillDone, PollerSend: the poller
\* signals the subprocess and sends Cancelled.
PollerRunCancelled(t) ==
  /\ poller[t] = "poll"
  /\ cancel_flag[t]
  /\ killIssued' = [killIssued EXCEPT ![t] = TRUE]
  /\ proc' = [proc EXCEPT ![t] = Signalled(@)]
  /\ sent' = [sent EXCEPT ![t] = SendAwaited(@, Cancelled, rx[t])]
  /\ poller' = [poller EXCEPT ![t] = "done"]
  /\ UNCHANGED <<cancel_flag, sup, abortReq, nrecv, rx, toWrite, pipe,
                 progressLines, readFailed, cancelPos, cancelCalls, errPipe, errBlocked, svcVars, obsVars, uiVars>>

\* SupReadEnd at end of stream with the flag false, SupPostCheck, SupWait:
\* the poller is aborted and Completed or Failed is sent.
SupRunExit(t, waitError) ==
  /\ sup[t] = "read"
  /\ ~cancel_flag[t]
  /\ proc[t] \in {"success", "failure"}
  /\ sent' = [sent EXCEPT ![t] = SendAwaited(@, ExitStatus(proc[t], waitError), rx[t])]
  /\ sup' = [sup EXCEPT ![t] = "done_exit"]
  /\ poller' = [poller EXCEPT ![t] = "done"]
  /\ UNCHANGED <<cancel_flag, abortReq, nrecv, rx, proc, toWrite, pipe,
                 killIssued, progressLines, readFailed, cancelPos, cancelCalls, errPipe, errBlocked, svcVars, obsVars, uiVars>>

SupervisorRun(t) ==
  \/ \E spawned \in BOOLEAN : SupStart(t, spawned, TRUE)
  \/ \E ok \in BOOLEAN : ProcExit(t, ok)
  \/ SupRunCancelled(t)
  \/ PollerRunCancelled(t)
  \/ SupRunExit(t, FALSE)

SvcNext ==
  \/ StartRejected
  \/ start_conversion
  \/ cleanup_completed_tasks
  \/ \E t \in TaskIds :
       \/ ExecAcquire(t)
       \/ \E valid \in BOOLEAN : ExecExecute(t, valid)
       \/ ExecRecv(t)
       \/ ExecRecvClosed(t)
       \/ ExecTimeout(t)
       \/ cancel_conversion(t)
       \/ SupervisorRun(t)

SvcSpec == Init /\ [][SvcNext]_vars

\* The service with the timeouts of running subprocesses noted.
TimeoutNext ==
  \/ StartRejected
  \/ start_conversion
  \/ cleanup_completed_tasks
  \/ \E t \in TaskIds :
       \/ ExecAcquire(t)
       \/ \E valid \in BOOLEAN : ExecExecute(t, valid)
       \/ ExecRecv(t)
       \/ ExecRecvClosed(t)
       \/ ExecTimeoutObserved(t)
       \/ cancel_conversion(t)
       \/ SupervisorRun(t)

TimeoutSpec == Init /\ [][TimeoutNext]_vars

\* The service with the results of its calls observed: requests are made,
\* accepted ones acquire their permit and run task.execute().
CallNext ==
  \/ \E check \in VersionChecks, valid \in BOOLEAN : StartCall(check, valid)
  \/ \E t \in TaskIds :
       \/ ExecAcquire(t)
       \/ \E valid \in BOOLEAN : ExecuteCall(t, valid)

CallSpec == Init /\ [][CallNext]_vars

\* ------------------------------------------- execute() with its probes
\* ExecuteProbed that passes the error of a probe that could not be launched
\* on to its caller, as `?` would.
ExecuteProbedFailing(t, dprobe, fprobe) ==
  /\ sup[t] = "none"
  /\ rx[t] = "none"
  /\ calls < MaxCalls
  /\ calls' = calls + 1
  /\ IF dprobe.out = "launch_failed" \/ fprobe.out = "launch_failed"
       THEN /\ returned' = [call |-> "execute", result |-> "FFmpegNotFound"]
            /\ UNCHANGED <<parser, sup, rx>>
       ELSE /\ returned' = [call |-> "execute", result |-> "Ok"]
            /\ parser' = ProgressParser(get_duration(dprobe, None),
                                        get_frame_count(fprobe))
            /\ sup' = [sup EXCEPT ![t] = "start"]
            /\ rx' = [rx EXCEPT ![t] = "open"]
  /\ UNCHANGED <<cancel_flag, poller, abortReq, sent, nrecv, proc, toWrite,
                 pipe, killIssued, progressLines, readFailed, cancelPos, cancelCalls, errPipe, errBlocked,
                 svcVars, versionRuns, parsedLine, snapshot, libVars, uiVars>>

\* ConversionTask::execute on valid paths: both probes are run and their
\* failures dropped, the parser is built from what they found, the channel
\* is created and the supervisor spawned; the call returns Ok(rx).
ExecuteProbed(t, dprobe, fprobe) ==
  /\ sup[t] = "none"
  /\ rx[t] = "none"
  /\ calls < MaxCalls
  /\ calls' = calls + 1
  /\ returned' = [call |-> "execute", result |-> "Ok"]
  /\ parser' = ProgressParser(get_duration(dprobe, None), get_frame_count(fprobe))
  /\ sup' = [sup EXCEPT ![t] = "start"]
  /\ rx' = [rx EXCEPT ![t] = "open"]
  /\ UNCHANGED <<cancel_flag, poller, abortReq, sent, nrecv, proc, toWrite,
                 pipe, killIssued, progressLines, readFailed, cancelPos, cancelCalls, errPipe, errBlocked,
                 svcVars, versionRuns, parsedLine, snapshot, libVars, uiVars>>

\* progress_parser.parse_line(&line) in the output loop: the parser is
\* borrowed, not changed.
ParseLine(l) ==
  /\ parser.made
  /\ parsedLine' = l
  /\ snapshot' = parse_line(parser, l)
  /\ UNCHANGED <<supVars, svcVars, calls, returned, versionRuns, parser, libVars, uiVars>>

ParseNext ==
  \/ \E t \in DirectIds, dprobe \in DurationProbes, fprobe \in FrameProbes :
       ExecuteProbed(t, dprobe, fprobe)
  \/ \E l \in LineShapes : ParseLine(l)

ParseSpec == Init /\ [][ParseNext]_vars

\* ------------------------------------------- functions called on their own
\* The variables of these calls hold the last call and what it returned.
\* A caller asks whether an error is recoverable.
IsRecoverable(e) ==
  /\ classified' = [error |-> e, recoverable |-> is_recoverable(e)]
  /\ diagnosed' = NotDiagnosed
  /\ validated' = NotValidated
  /\ sanitized' = NotSanitized
  /\ UNCHANGED <<supVars, svcVars, calls, returned, versionRuns, parser,
                 parsedLine, snapshot, uiVars>>

\* A subprocess that wrote `stderr` exits with a non-success status: the
\* branch of execute() that builds the text of Failed.
FailedDiagnostic(stderr) ==
  /\ diagnosed' = [stderr |-> stderr, msg |-> error_msg(stderr)]
  /\ classified' = NotClassified
  /\ validated' = NotValidated
  /\ sanitized' = NotSanitized
  /\ UNCHANGED <<supVars, svcVars, calls, returned, versionRuns, parser,
                 parsedLine, snapshot, uiVars>>

\* A call of validate_ffmpeg_args.
ValidateFfmpegArgs(args) ==
  /\ validated' = [args |-> args, result |-> validate_ffmpeg_args(args)]
  /\ classified' = NotClassified
  /\ diagnosed' = NotDiagnosed
  /\ sanitized' = NotSanitized
  /\ UNCHANGED <<supVars, svcVars, calls, returned, versionRuns, parser,
                 parsedLine, snapshot, uiVars>>

\* A call of sanitize_filename.
SanitizeFilename(filename) ==
  /\ sanitized' = [filename |-> filename, result |-> sanitize_filename(filename)]
  /\ classified' = NotClassified
  /\ diagnosed' = NotDiagnosed
  /\ validated' = NotValidated
  /\ UNCHANGED <<supVars, svcVars, calls, returned, versionRuns, parser,
                 parsedLine, snapshot, uiVars>>

LibNext ==
  \/ \E e \in ConversionErrors : IsRecoverable(e)
  \/ \E stderr \in StderrStreams : FailedDiagnostic(stderr)
  \/ \E args \in ArgumentLists : ValidateFfmpegArgs(args)
  \/ \E filename \in Filenames : SanitizeFilename(filename)

LibSpec == Init /\ [][LibNext]_vars

\* ----------------------------------------------------------- state::AppData
has_error == error_message # Absent
AppData_can_start_conversion ==
  /\ input_file # Absent
  /\ output_file # Absent
  /\ is_idle(state)
  /\ ~has_error

\* The method called and the state it was called in.
Called(method) == appCall' = [method |-> method, found |-> state]

set_input_file(path) ==
  /\ Called("set_input_file")
  /\ input_file' = path
  /\ error_message' = Absent
  /\ UNCHANGED <<state, output_file, progress_changed, supVars, svcVars, obsVars, guiVars>>

set_output_file(path) ==
  /\ Called("set_output_file")
  /\ output_file' = path
  /\ UNCHANGED <<state, input_file, error_message, progress_changed,
                 supVars, svcVars, obsVars, guiVars>>

set_error(err) ==
  /\ Called("set_error")
  /\ error_message' = err
  /\ UNCHANGED <<state, input_file, output_file, progress_changed,
                 supVars, svcVars, obsVars, guiVars>>

clear_error ==
  /\ Called("clear_error")
  /\ error_message' = Absent
  /\ UNCHANGED <<state, input_file, output_file, progress_changed,
                 supVars, svcVars, obsVars, guiVars>>

AppData_start_conversion(task_id) ==
  /\ Called("start_conversion")
  /\ IF AppData_can_start_conversion
       THEN /\ state' = transition_to_converting(task_id)
            /\ error_message' = Absent
       ELSE UNCHANGED <<state, error_message>>
  /\ UNCHANGED <<input_file, output_file, progress_changed, supVars, svcVars, obsVars, guiVars>>

update_conversion_progress(progress) ==
  /\ Called("update_conversion_progress")
  /\ state' = update_progress(state, progress)
  /\ progress_changed' = TRUE
  /\ UNCHANGED <<input_file, output_file, error_message, supVars, svcVars, obsVars, guiVars>>

complete_conversion(output_path) ==
  /\ Called("complete_conversion")
  /\ state' = transition_to_completed(state, output_path)
  /\ UNCHANGED <<input_file, output_file, error_message, progress_changed,
                 supVars, svcVars, obsVars, guiVars>>

fail_conversion(err) ==
  /\ Called("fail_conversion")
  /\ state' = transition_to_failed(state, err)
  /\ error_message' = err
  /\ UNCHANGED <<input_file, output_file, progress_changed, supVars, svcVars, obsVars, guiVars>>

AppData_cancel_conversion ==
  /\ Called("cancel_conversion")
  /\ state' = transition_to_cancelled(state)
  /\ UNCHANGED <<input_file, output_file, error_message, progress_changed,
                 supVars, svcVars, obsVars, guiVars>>

\* reset_to_idle, clear_error, and the progress mark is cleared.
reset_conversion ==
  /\ Called("reset_conversion")
  /\ state' = Idle
  /\ error_message' = Absent
  /\ progress_changed' = FALSE
  /\ UNCHANGED <<input_file, output_file, supVars, svcVars, obsVars, guiVars>>

mark_progress_handled ==
  /\ Called("mark_progress_handled")
  /\ progress_changed' = FALSE
  /\ UNCHANGED <<state, input_file, output_file, error_message,
                 supVars, svcVars, obsVars, guiVars>>

\* The methods of AppData called in any order with any arguments.
AppNext ==
  \/ \E path \in Paths : set_input_file(path)
  \/ \E path \in Paths : set_output_file(path)
  \/ \E err \in ErrorTexts : set_error(err)
  \/ clear_error
  \/ \E task_id \in AppTaskIds : AppData_start_conversion(task_id)
  \/ \E progress \in ProgressValues : update_conversion_progress(progress)
  \/ \E path \in Paths : complete_conversion(path)
  \/ \E err \in ErrorTexts : fail_conversion(err)
  \/ AppData_cancel_conversion
  \/ reset_conversion
  \/ mark_progress_handled

AppSpec == Init /\ [][AppNext]_vars

\* ------------------------------------------------------------ app::FFmpegApp
\* std::sync::mpsc::channel() in start_conversion with one channel for every
\* conversion.
channel_shared(c) == 1
\* std::sync::mpsc::channel() in start_conversion: a channel of its own for
\* conversion c.
channel(c) == c

\* ConversionMessage, with the conversion that sent it, and whether that
\* conversion had been left when it was sent.
MessageProgress(c, n) == [kind |-> "Progress", conv |-> c, n |-> n, late |-> c \in left]
MessageCompleted(c) == [kind |-> "Completed", conv |-> c, n |-> 0, late |-> c \in left]
MessageError(c) == [kind |-> "Error", conv |-> c, n |-> 0, late |-> c \in left]

\* `let _ = self.sender.send(message)`: the message is queued while the
\* receiver exists; with the receiver dropped send returns Err, which is
\* ignored.
Send(c, m) ==
  /\ chan' = [chan EXCEPT ![channel(c)].queue =
                 IF chan[channel(c)].alive THEN Append(@, m) ELSE @]
  /\ conv' = [conv EXCEPT ![c].lateSends = IF c \in left THEN 1 ELSE @,
                          ![c].task = "done"]

GuiCanStart == app.input_file /\ app.output_folder /\ ~app.is_converting

\* A file was picked in the dialog of select_input_file.
select_input_file ==
  /\ app' = [app EXCEPT !.input_file = TRUE, !.status_message = "Input file selected"]
  /\ UNCHANGED <<conv, chan, started, left, staleApplied,
                 supVars, svcVars, obsVars, appVars>>

\* A folder was picked in the dialog of select_output_folder.
select_output_folder ==
  /\ app' = [app EXCEPT !.output_folder = TRUE,
                        !.status_message = "Output folder selected"]
  /\ UNCHANGED <<conv, chan, started, left, staleApplied,
                 supVars, svcVars, obsVars, appVars>>

\* start_conversion: returns when can_start_conversion is false; otherwise a
\* channel is created, its receiver stored (the one stored before is
\* dropped), the task spawned on the runtime and the fields set.
Gui_start_conversion ==
  IF ~GuiCanStart
    THEN UNCHANGED vars
    ELSE /\ started < MaxConversions
         /\ LET c == started + 1
                old == app.conversion_receiver
            IN  /\ started' = c
                /\ chan' = [ch \in ConvIds |->
                              IF ch = channel(c) THEN [alive |-> TRUE, queue |-> <<>>]
                              ELSE IF ch = old THEN [chan[ch] EXCEPT !.alive = FALSE]
                              ELSE chan[ch]]
                /\ conv' = [conv EXCEPT ![c].task = "probe"]
                /\ app' = [app EXCEPT !.conversion_receiver = channel(c),
                                      !.is_converting = TRUE,
                                      !.progress = NoProgress,
                                      !.error_message = Absent,
                                      !.status_message = "Starting conversion..."]
         /\ UNCHANGED <<left, staleApplied, supVars, svcVars, obsVars, appVars>>

\* The receiver stored in the window is dropped, with what it had queued.
DropStored(ch) ==
  [x \in ConvIds |-> IF x = ch THEN [alive |-> FALSE, queue |-> <<>>] ELSE chan[x]]

\* stop_conversion: the fields are reset and the receiver dropped.  The task
\* spawned by start_conversion and its subprocess are not touched.
Gui_stop_conversion ==
  /\ app' = [app EXCEPT !.is_converting = FALSE,
                        !.progress = NoProgress,
                        !.conversion_receiver = NoReceiver,
                        !.status_message = "Conversion stopped"]
  /\ chan' = DropStored(app.conversion_receiver)
  /\ left' = IF app.is_converting THEN left \cup {started} ELSE left
  /\ UNCHANGED <<conv, started, staleApplied, supVars, svcVars, obsVars, appVars>>

\* The `for message in messages` loop of check_conversion_progress on the
\* window w = [app, left, stale].
RECURSIVE ApplyMessages(_, _)
ApplyMessages(w, messages) ==
  IF messages = <<>> THEN w
  ELSE
    LET m == Head(messages)
        stale == IF m.late \/ m.conv \in w.left
                   THEN w.stale \cup {m} ELSE w.stale
        next ==
          CASE m.kind = "Progress" ->
                 [app |-> [w.app EXCEPT !.progress = [conv |-> m.conv, n |-> m.n],
                                        !.status_message = "Converting..."],
                  left |-> w.left, stale |-> stale]
            [] m.kind = "Completed" ->
                 [app |-> [w.app EXCEPT !.is_converting = FALSE,
                                        !.progress = NoProgress,
                                        !.conversion_receiver = NoReceiver,
                                        !.status_message = "Conversion completed"],
                  left |-> w.left \cup {started}, stale |-> stale]
            [] m.kind = "Error" ->
                 [app |-> [w.app EXCEPT !.is_converting = FALSE,
                                        !.progress = NoProgress,
                                        !.conversion_receiver = NoReceiver,
                                        !.error_message = "FFmpeg conversion failed",
                                        !.status_message = "Conversion failed"],
                  left |-> w.left \cup {started}, stale |-> stale]
    IN  ApplyMessages(next, Tail(messages))

\* check_conversion_progress: everything try_recv returns from the stored
\* receiver is collected, then applied in order; a Completed or an Error
\* drops the receiver.
check_conversion_progress ==
  /\ app.conversion_receiver # NoReceiver
  /\ LET ch == app.conversion_receiver
         w == ApplyMessages([app |-> app, left |-> left, stale |-> staleApplied],
                            chan[ch].queue)
     IN  /\ app' = w.app
         /\ left' = w.left
         /\ staleApplied' = w.stale
         /\ chan' = IF w.app.conversion_receiver = NoReceiver
                      THEN DropStored(ch)
                      ELSE [chan EXCEPT ![ch].queue = <<>>]
  /\ UNCHANGED <<conv, started, supVars, svcVars, obsVars, appVars>>

\* ------------------------------------------- conversion.rs: ConversionTask
\* get_video_duration (ffprobe), then the spawn of ffmpeg: Err is returned
\* with `?` and execute() sends Error.
TaskSpawn(c, probed, spawned) ==
  /\ conv[c].task = "probe"
  /\ IF probed /\ spawned
       THEN /\ conv' = [conv EXCEPT ![c].task = "read", ![c].ffmpeg = "running"]
            /\ UNCHANGED chan
       ELSE Send(c, MessageError(c))
  /\ UNCHANGED <<app, started, left, staleApplied, supVars, svcVars, obsVars, appVars>>

\* One line of the stderr of ffmpeg is read; an out_time_ms line with a
\* number is sent as Progress.
TaskReadLine(c, isProgress) ==
  /\ conv[c].task = "read"
  /\ conv[c].ffmpeg = "running"
  /\ conv[c].lines < MaxProgressLines
  /\ conv' = [conv EXCEPT ![c].lines = @ + 1,
                          ![c].lateSends =
                             IF isProgress /\ c \in left THEN 1 ELSE @]
  /\ chan' = [chan EXCEPT ![channel(c)].queue =
                 IF isProgress /\ chan[channel(c)].alive
                   THEN Append(@, MessageProgress(c, conv[c].lines + 1)) ELSE @]
  /\ UNCHANGED <<app, started, left, staleApplied, supVars, svcVars, obsVars, appVars>>

\* ffmpeg exits by itself.
FfmpegExit(c, ok) ==
  /\ conv[c].ffmpeg = "running"
  /\ conv' = [conv EXCEPT ![c].ffmpeg = IF ok THEN "success" ELSE "failure"]
  /\ UNCHANGED <<app, chan, started, left, staleApplied,
                 supVars, svcVars, obsVars, appVars>>

\* next_line returns Ok(None) or Err, child.wait() returns, and execute()
\* sends Completed or Error.
TaskWait(c, waitError) ==
  /\ conv[c].task = "read"
  /\ conv[c].ffmpeg \in {"success", "failure"}
  /\ Send(c, IF conv[c].ffmpeg = "success" /\ ~waitError
               THEN MessageCompleted(c) ELSE MessageError(c))
  /\ UNCHANGED <<app, started, left, staleApplied, supVars, svcVars, obsVars, appVars>>

GuiNext ==
  \/ select_input_file
  \/ select_output_folder
  \/ Gui_start_conversion
  \/ Gui_stop_conversion
  \/ check_conversion_progress
  \/ \E c \in ConvIds :
       \/ \E probed, spawned \in BOOLEAN : TaskSpawn(c, probed, spawned)
       \/ \E isProgress \in BOOLEAN : TaskReadLine(c, isProgress)
       \/ \E ok \in BOOLEAN : FfmpegExit(c, ok)
       \/ \E waitError \in BOOLEAN : TaskWait(c, waitError)

GuiSpec == Init /\ [][GuiNext]_vars

\* ------------------------------------------------ what a receiver observed
\* The statuses the receiver has taken from the channel, in order.
Delivered(t) == SubSeq(sent[t], 1, nrecv[t])
\* How many of the statuses in q carry a tag of tags.
CountTags(q, tags) == Cardinality({i \in 1 .. Len(q) : q[i].tag \in tags})
\* The execute_conversion tasks that hold a permit.
PermitHolders == {t \in TaskIds : exec[t] \in {"probing", "monitor"}}

\* ------------------------------------------------------------------ claims

\* C1: when the status channel of a task started by execute() closes, the
\* receiver has received exactly one terminal status (Completed, Failed or
\* Cancelled), and it was the last status it received.
C1_ExactlyOneTerminal ==
  \A t \in TaskIds :
    ChannelClosed(t) =>
      /\ CountTags(Delivered(t), TerminalTags) = 1
      /\ IsTerminal(Delivered(t)[Len(Delivered(t))])

\* C2: Starting is the first status a receiver gets, and it gets it exactly
\* once before the channel closes.
C2_StartingFirst ==
  \A t \in TaskIds :
    /\ nrecv[t] >= 1 => Delivered(t)[1] = Starting
    /\ ChannelClosed(t) => CountTags(Delivered(t), {"Starting"}) = 1

\* C3: no status is sent on a channel after a terminal status: a terminal
\* status is the last one sent, whichever of the reader and the poller sent it.
C3_NothingAfterTerminal ==
  \A t \in TaskIds :
    \A i \in 1 .. Len(sent[t]) : IsTerminal(sent[t][i]) => i = Len(sent[t])

\* C3 witness: the poller has sent Cancelled and the reader, which saw the
\* flag set, has returned without sending a status.
C3_PollerCancelledThenReaderReturned ==
  \E t \in TaskIds :
    /\ sent[t] # <<>>
    /\ sent[t][Len(sent[t])] = Cancelled
    /\ sup[t] = "done_cancel"
    /\ poller[t] = "done"

\* C4: when cancel() is called while the subprocess is spawned and still
\* running, the terminal status the receiver gets is Cancelled.
C4_CancelYieldsCancelled ==
  \A t \in TaskIds :
    (cancelPos[t] = "streaming" /\ ChannelClosed(t)) =>
      /\ Delivered(t) # <<>>
      /\ Delivered(t)[Len(Delivered(t))] = Cancelled

\* C5: when a supervisor has ended because of cancellation (the reader has
\* returned on the flag, the poller has finished or was aborted), the
\* termination signal was issued and the subprocess is no longer running.
C5_CancelledSupervisorKilled ==
  \A t \in TaskIds :
    (sup[t] = "done_cancel" /\ poller[t] = "done") =>
      (killIssued[t] /\ proc[t] # "running")

\* C6: when the channel closes, the receiver has received one InProgress for
\* each output line that was read with the flag false and for which
\* parse_line returned Some.
C6_OneInProgressPerLine ==
  \A t \in TaskIds :
    ChannelClosed(t) => CountTags(Delivered(t), {"InProgress"}) = progressLines[t]

\* C7: at most MAX_CONCURRENT_CONVERSIONS accepted tasks are short of a
\* terminal state: no further request is accepted and left Queued or Running.
C7_AcceptedWithinLimit ==
  Cardinality({t \in TaskIds : status[t] \in {"Queued", "Running"}})
    <= MAX_CONCURRENT_CONVERSIONS

\* C8: at most MAX_CONCURRENT_CONVERSIONS subprocesses spawned by the
\* registry's supervisors are running at any time.  Subprocesses that a
\* poller is about to signal are left out of the count, so that the bound is
\* not refuted by a subprocess in its last moments.
C8_RunningWithinLimit ==
  Cardinality({t \in TaskIds :
                 proc[t] = "running" /\ ~(cancel_flag[t] /\ poller[t] = "poll")})
    <= MAX_CONCURRENT_CONVERSIONS

C10_CancelledStaysCancelled ==
  \A t \in cancelledRunning :
    /\ status[t] \in {"Cancelled", "None"}
    /\ events[t]["Failed"] = 0

\* C11: cancel_conversion applied to a task whose registry status is already
\* Completed, Failed or Cancelled changes no registry status and sends no
\* event.
C11_CancelTerminalNoOp ==
  [][\A t \in TaskIds :
       (status[t] \in RegistryTerminal /\ cancel_conversion(t)) =>
         (status' = status /\ events' = events)]_vars

\* C12: a second cancel() on a task changes nothing the supervisor, the
\* subprocess or the receiver can see, so the statuses that follow are those
\* of a single call; the flag, once true, stays true; and Cancelled is sent at
\* most once.
C12_SecondCancelSame ==
  /\ [][\A t \in TaskIds :
          (cancel_flag[t] /\ Cancel(t)) =>
            UNCHANGED <<cancel_flag, sup, poller, abortReq, sent, nrecv, rx,
                        proc, toWrite, pipe, killIssued, progressLines>>]_vars
  /\ [][\A t \in TaskIds : cancel_flag[t] => cancel_flag'[t]]_vars
  /\ [](\A t \in TaskIds : CountTags(sent[t], {"Cancelled"}) <= 1)

\* C12 witness: cancel() was called twice and Cancelled was sent once.
C12_TwoCancelsOneCancelled ==
  \E t \in TaskIds :
    /\ cancelCalls[t] >= 2
    /\ CountTags(sent[t], {"Cancelled"}) = 1

\* C13: when the timeout of execute_conversion elapses, no ConversionFailed
\* was sent for the task before and one is sent now, and an entry of the
\* registry becomes Failed with "Conversion timed out"; afterwards only
\* cancel_conversion and cleanup_completed_tasks change the task's status or
\* events, so the Cancelled the supervisor sends on the internal cancellation
\* is neither recorded nor sent as an event: it is never queued, and the task
\* keeps exactly one ConversionFailed and no ConversionCompleted.
C13_TimeoutFailsOnce ==
  /\ [][\A t \in timedOut' \ timedOut :
            /\ events[t]["Failed"] = 0
            /\ events'[t]["Failed"] = 1
            /\ HasEntry(t) =>
                 (status'[t] = "Failed" /\ error'[t] = "Conversion timed out")]_vars
  /\ [][\A t \in timedOut :
          (status'[t] # status[t] \/ error'[t] # error[t] \/ events'[t] # events[t]) =>
            (cancel_conversion(t) \/ cleanup_completed_tasks)]_vars
  /\ [](\A t \in timedOut :
          /\ events[t]["Failed"] = 1
          /\ events[t]["Completed"] = 0
          /\ sent[t] = <<>>)

\* C13 witness: after a timeout the supervisor's poller has run its
\* cancellation (signal issued, Cancelled handed to the channel) and the
\* registry still shows Failed with the timeout text.
C13_TimedOutThenSupervisorCancelled ==
  \E t \in timedOut :
    /\ killIssued[t]
    /\ poller[t] = "done"
    /\ status[t] = "Failed"
    /\ error[t] = "Conversion timed out"

\* C14: a failed spawn sends exactly one Failed, with the text "FFmpeg not
\* found" when the error kind is NotFound, and ends the supervisor: no poller
\* is started, no subprocess exists, no signal is issued, and from then on
\* nothing more is sent for the task, whether or not cancel() is called.
C14_SpawnFailureOnlyFailed ==
  /\ [](\A t \in TaskIds :
          sup[t] = "done_spawnfail" =>
            /\ poller[t] = "none"
            /\ proc[t] = "none"
            /\ ~killIssued[t]
            /\ sent[t] \in {<<Failed("FFmpeg not found")>>,
                            <<Failed("Failed to start FFmpeg")>>})
  /\ [][\A t \in TaskIds :
          SupStart(t, FALSE, TRUE) => sent'[t] = <<Failed("FFmpeg not found")>>]_vars
  /\ [][\A t \in TaskIds :
          sup[t] = "done_spawnfail" =>
            (sup'[t] = sup[t] /\ sent'[t] = sent[t])]_vars

\* C14 witness: the spawn failed with NotFound, the Failed was received, and
\* cancel() was called for the first time after the supervisor had ended.
C14_CancelAfterSpawnFailure ==
  \E t \in TaskIds :
    /\ sup[t] = "done_spawnfail"
    /\ sent[t] = <<Failed("FFmpeg not found")>>
    /\ nrecv[t] = 1
    /\ cancel_flag[t]
    /\ cancelPos[t] = "done_spawnfail"

\* C15 as stated: a call of start_conversion that returns an error inserts no
\* entry, sends no event, spawns no background task, creates no supervisor
\* and starts no subprocess at all; a call of execute that returns an error
\* creates no channel, no supervisor and no subprocess.
C15_RejectionStartsNoSubprocess ==
  [][(calls' # calls /\ returned'.result # "Ok") =>
       /\ UNCHANGED <<issued, sup, poller, rx, sent, proc, active, cancel_flag>>
       /\ versionRuns' = versionRuns
       /\ returned'.call = "start_conversion" =>
            UNCHANGED <<status, error, events, exec, permits>>]_vars

\* C15, amended: as above, except that the rejections FFmpegNotFound and
\* InvalidSettings come after the one `ffmpeg -version` subprocess of
\* validate_ffmpeg; only MaxConcurrentReached runs no subprocess.
C15_RejectionLeavesRegistry ==
  [][(calls' # calls /\ returned'.result # "Ok") =>
       /\ UNCHANGED <<issued, sup, poller, rx, sent, proc, active, cancel_flag>>
       /\ versionRuns' \in {versionRuns, versionRuns + 1}
       /\ returned'.result \in {"MaxConcurrentReached", "InvalidInput"} =>
            versionRuns' = versionRuns
       /\ returned'.call = "start_conversion" =>
            UNCHANGED <<status, error, events, exec, permits>>]_vars

\* C15 witness: with one task running and one queued, a request was rejected
\* with InvalidSettings after `ffmpeg -version` had run for it.
C15_RejectedInvalidSettings ==
  /\ returned = [call |-> "start_conversion", result |-> "InvalidSettings"]
  /\ versionRuns = 3
  /\ Cardinality(issued) = 2
  /\ \E t \in TaskIds : status[t] = "Running"

\* C17: once the reader has left the output loop with the flag false, the
\* poller is aborted (ended, or its abort pending) before child.wait(); a
\* cancel() whose first call comes after the reader's post-loop flag check
\* sends no Cancelled and does not reach the subprocess, which is left to
\* exit by itself; the one status sent is Completed for a successful exit and
\* Failed otherwise.
C17_LateCancelIgnored ==
  \A t \in TaskIds :
    /\ sup[t] \in {"wait", "done_exit"} =>
         (poller[t] = "done" \/ (poller[t] = "poll" /\ abortReq[t]))
    /\ cancelPos[t] \in {"wait", "done_exit"} =>
         /\ CountTags(sent[t], {"Cancelled"}) = 0
         /\ ~killIssued[t]
         /\ sup[t] = "done_exit" =>
              \E waitError \in BOOLEAN :
                sent[t] = <<ExitStatus(proc[t], waitError)>>

\* C16: whatever the two probes come to, execute() returns Ok and starts the
\* supervisor; a probe that could not be launched, exited non-zero or printed
\* no number leaves its value None; and a parser with neither duration nor
\* frame count returns only snapshots with percentage 0 and no eta, and never
\* panics.
C16_ProbeFailuresIgnored ==
  /\ [][\A t \in DirectIds, dprobe \in DurationProbes, fprobe \in FrameProbes :
          ExecuteProbed(t, dprobe, fprobe) =>
            /\ returned'.result = "Ok"
            /\ sup'[t] = "start" /\ rx'[t] = "open"
            /\ parser'.made
            /\ dprobe \in ProbeFailures => ~parser'.duration_seconds.some
            /\ fprobe \in ProbeFailures => ~parser'.total_frames.some]_vars
  /\ []((/\ parser.made
         /\ ~parser.duration_seconds.some
         /\ ~parser.total_frames.some
         /\ snapshot.kind # "NotParsed") =>
          /\ snapshot.kind \in {"None", "Some"}
          /\ snapshot.progress.percentage = Fin(0)
          /\ snapshot.progress.eta.k = "none")

\* C16 witness: both probes failed, and a line with frame, time and a
\* positive speed was parsed into a snapshot.
C16_BothUnknownLineParsed ==
  /\ parser.made
  /\ ~parser.duration_seconds.some
  /\ ~parser.total_frames.some
  /\ snapshot.kind = "Some"
  /\ parsedLine.time = <<0, 0, 1, 0>>
  /\ parsedLine.speed = [k |-> "num", v |-> 50]
  /\ snapshot.progress.current_frame = 30

\* C18: parse_line returns None exactly for the lines without "frame=", and
\* for every line with it returns a snapshot in which a field that is absent
\* or does not parse has its default: frame 0, fps 0, speed 0, empty bitrate,
\* size and elapsed time, and without a time no percentage and no eta; the
\* parser is the same after the call.
C18_SnapshotForEveryFrameLine ==
  /\ []((parser.made /\ snapshot.kind # "NotParsed") =>
          /\ snapshot.kind = "None" <=> parsedLine.frame.k = "nomarker"
          /\ parsedLine.frame.k # "nomarker" =>
               /\ snapshot.kind = "Some"
               /\ parsedLine.frame.k \in {"nodigits", "overflow"} =>
                    snapshot.progress.current_frame = 0
               /\ parsedLine.fps.k \in {"absent", "bad"} =>
                    snapshot.progress.fps = Fin(0)
               /\ parsedLine.speed.k \in {"absent", "bad"} =>
                    snapshot.progress.speed = Fin(0)
               /\ parsedLine.bitrate = "" => snapshot.progress.bitrate = ""
               /\ parsedLine.size = "" => snapshot.progress.size = ""
               /\ parsedLine.time = NoTime =>
                    /\ snapshot.progress.time_elapsed = <<>>
                    /\ snapshot.progress.percentage = Fin(0)
                    /\ snapshot.progress.eta.k = "none")
  /\ [][\A l \in LineShapes : ParseLine(l) => parser' = parser]_vars

\* In duration mode: a duration is known and is > 0 (infinity included).
DurationMode == parser.duration_seconds.some /\ Positive(parser.duration_seconds.val)
\* In frame mode: no duration is known and the frame count is known and > 0.
FrameMode ==
  /\ ~parser.duration_seconds.some
  /\ parser.total_frames.some
  /\ parser.total_frames.val.v > 0

\* C19: every snapshot of a parser in duration mode or in frame mode has a
\* percentage that is a number from 0 to 100; it is exactly 100 when the
\* elapsed time of the line is above the duration, and in frame mode when the
\* frame index of a line with a time is above the frame count.
C19_PercentageClamped ==
  (snapshot.kind = "Some" /\ (DurationMode \/ FrameMode)) =>
    /\ snapshot.progress.percentage.k = "fin"
    /\ snapshot.progress.percentage.v >= 0
    /\ snapshot.progress.percentage.v <= 10000
    /\ (/\ DurationMode
        /\ parsedLine.time # NoTime
        /\ parser.duration_seconds.val.k = "fin"
        /\ total_seconds(parsedLine.time) > parser.duration_seconds.val.v) =>
         snapshot.progress.percentage = Fin(10000)
    /\ (/\ FrameMode
        /\ parsedLine.time # NoTime
        /\ parse_u32(parsedLine.frame) > parser.total_frames.val.v) =>
         snapshot.progress.percentage = Fin(10000)

\* C19 witness: a line whose time (1:00.50) is above the duration (2 s) was
\* parsed and its percentage is 100.
C19_ElapsedAboveDuration ==
  /\ snapshot.kind = "Some"
  /\ parser.duration_seconds = Some(Fin(200))
  /\ parsedLine.time = <<0, 1, 0, 50>>
  /\ snapshot.progress.percentage = Fin(10000)

C21_NonPositiveDurationUsesFrames ==
  (/\ snapshot.kind = "Some"
   /\ parser.duration_seconds.some
   /\ ~Positive(parser.duration_seconds.val)
   /\ parser.total_frames.some
   /\ parser.total_frames.val.v > 0
   /\ parsedLine.time # NoTime) =>
    /\ snapshot.progress.percentage.k = "fin"
    /\ snapshot.progress.percentage =
         FramePercentage(parse_u32(parsedLine.frame), parser.total_frames.val.v)

\* C22: in frame mode (no duration, frame count N > 0) every snapshot has the
\* percentage clamp(current_frame / N * 100) and no eta, with or without a
\* time field in the line.
C22_FrameRuleOnEveryLine ==
  (snapshot.kind = "Some" /\ FrameMode) =>
    /\ snapshot.progress.percentage =
         FramePercentage(parse_u32(parsedLine.frame), parser.total_frames.val.v)
    /\ snapshot.progress.eta.k = "none"

DisplayedGroups(shown) == <<shown[1], shown[2], shown[3] \div 100, shown[3] % 100>>

C25_RecoverableClasses ==
  /\ classified.error \in {"FFmpegNotFound", "InvalidInput", "InvalidSettings",
                           "SecurityError"} => classified.recoverable
  /\ classified.error \in {"ProcessError", "Io"} => ~classified.recoverable

\* C26: the text of Failed after a non-success exit carries at most 10 lines
\* of the error stream; when the stream has more than 10 lines they are its
\* last lines; when the stream is empty the text is the fixed fallback.
C26_TrailingDiagnostic ==
  diagnosed.msg.text # "none" =>
    LET n == Len(diagnosed.stderr)
    IN  /\ Len(diagnosed.msg.lines) <= MAX_ERROR_LINES
        /\ n > MAX_ERROR_LINES =>
              diagnosed.msg.lines =
                SubSeq(diagnosed.stderr, n - MAX_ERROR_LINES + 1, n)
        /\ n = 0 =>
              diagnosed.msg.text =
                "FFmpeg process failed without specific error message"

\* C27 (as stated): validate_ffmpeg_args returns an error when some argument
\* contains one of ; & | backtick $ or "../" or is a disallowed option, or when there
\* are more than 50 arguments; in every other case in which no path check
\* fails it returns the arguments unchanged.
C27_RejectsListedElseUnchanged ==
  validated.result.kind # "none" =>
    LET args == validated.args
        listed == \/ Len(args) > MAX_ARGS
                  \/ \E i \in 1..Len(args) :
                       \/ ShellMetacharacter(args[i])
                       \/ DirectoryTraversal(args[i])
                       \/ args[i] \in disallowed_args
        pathFails == \E i \in 1..Len(args) :
                       IsPathArgument(args[i]) /\ validate_path(args[i]) # "Ok"
    IN  /\ listed => validated.result.kind # "Ok"
        /\ (~listed /\ ~pathFails) => validated.result = Ok(args)

\* C27 (amended): the same with the arguments that contain an encoded
\* character, \xHH or %HH with two hexadecimal digits, rejected as well.
C27_RejectsListedAndEncoded ==
  validated.result.kind # "none" =>
    LET args == validated.args
        listed == \/ Len(args) > MAX_ARGS
                  \/ \E i \in 1..Len(args) :
                       \/ ShellMetacharacter(args[i])
                       \/ DirectoryTraversal(args[i])
                       \/ HexEncoding(args[i])
                       \/ UrlEncoding(args[i])
                       \/ args[i] \in disallowed_args
        pathFails == \E i \in 1..Len(args) :
                       IsPathArgument(args[i]) /\ validate_path(args[i]) # "Ok"
    IN  /\ listed => validated.result.kind # "Ok"
        /\ (~listed /\ ~pathFails) => validated.result = Ok(args)

\* C27 witness: a list of two arguments whose second holds the encoded
\* character %41, and nothing else that is rejected, was refused as an
\* injection.
C27_EncodedArgumentRejected ==
  /\ validated.args = <<<<"-", "i">>, <<"%", "4", "1">>>>
  /\ validated.result = Err("CommandInjection")

\* C28: sanitize_filename returns the name with every dangerous character
\* replaced by '_' and the other characters in place, without its
\* surrounding whitespace and dots, or "unnamed" when nothing is left; and
\* for the name of the test, file<>:"|?*.mp4, it returns the string the test
\* asserts, file_________.mp4 with nine underscores.
C28_SanitizedAsTested ==
  sanitized # NotSanitized =>
    LET replaced == [i \in 1..Len(sanitized.filename) |->
                       IF sanitized.filename[i] \in DangerousCharacters
                         THEN "_" ELSE sanitized.filename[i]]
        outside == {i \in 1..Len(replaced) :
                      replaced[i] \notin {" ", "\t", "\n", "\r", "."}}
        stripped == IF outside = {} THEN <<>>
                    ELSE SubSeq(replaced,
                                CHOOSE i \in outside : \A j \in outside : i <= j,
                                CHOOSE i \in outside : \A j \in outside : j <= i)
    IN  /\ sanitized.result = IF stripped = <<>> THEN unnamed ELSE stripped
        /\ sanitized.filename = <<"f", "i", "l", "e", "<", ">", ":", "\"", "|", "?", "*", ".", "m", "p", "4">> =>
              sanitized.result = <<"f", "i", "l", "e", "_", "_", "_", "_", "_", "_", "_", "_", "_", ".", "m", "p", "4">>

\* C29: a task on which cancel_conversion ran while it was accepted and its
\* supervisor not yet registered (Queued, or Running and still probing) is
\* cancelled: it never runs to Completed afterwards, and its registry status
\* is not overwritten from Cancelled to Running.
C29_EarlyCancelTakesEffect ==
  /\ [](\A t \in cancelledEarly : events[t]["Completed"] = 0)
  /\ [][\A t \in cancelledEarly :
         status[t] = "Cancelled" => status'[t] # "Running"]_vars

\* C30: the supervisor sends Completed only when its output loop ended at the
\* end of the stream, the flag was false at the check after the loop (the
\* supervisor is waiting for the subprocess) and the exit status is success;
\* it sends a Failed other than that of a failed spawn only when the flag was
\* false at that check and the exit status is non-success or the wait itself
\* returned an error.
C30_CompletedOnlyAfterEndOfStream ==
  [][\A t \in TaskIds :
       /\ sent'[t] = Append(sent[t], Completed) =>
            /\ t \notin readFailed
            /\ sup[t] = "wait"
            /\ proc[t] = "success"
       /\ \A msg \in {"FFmpeg error", "Process execution error"} :
            sent'[t] = Append(sent[t], Failed(msg)) =>
              /\ sup[t] = "wait"
              /\ proc[t] = "failure" \/ msg = "Process execution error"]_vars

\* C31: when the timeout of execute_conversion elapses for a task whose
\* subprocess is running, the task's flag is set, and the subprocess is sent
\* the termination signal: it is never left running, unsignalled, with the
\* reader returned and the poller ended, so that nothing is left to signal it.
C31_TimeoutKillsSubprocess ==
  /\ [][\A t \in timedOutRunning' \ timedOutRunning : cancel_flag'[t]]_vars
  /\ [](\A t \in timedOutRunning :
          (sup[t] \in {"done_cancel", "done_exit"} /\ poller[t] = "done") =>
            (killIssued[t] \/ proc[t] # "running"))

\* C32: a cleanup_completed_tasks that removes entries removes exactly those
\* whose status is Completed, Failed or Cancelled and returns their number;
\* every other entry keeps its status; get_task_status then returns None for
\* the removed ids.  (No other operation removes an entry.)
C32_CleanupRemovesTerminal ==
  [][LET removed == {t \in TaskIds : status[t] # "None" /\ status'[t] = "None"}
     IN  removed # {} =>
           /\ removed = {t \in TaskIds : status[t] \in RegistryTerminal}
           /\ removed_count = Cardinality(removed)
           /\ \A t \in TaskIds \ removed : status'[t] = status[t]
           /\ \A t \in removed : get_task_status(t)' = "None"]_vars

\* C32 witness: the entry of an accepted task was removed while another task
\* is Running and a third Queued.
C32_RemovedBesideRunning ==
  \E t \in issued, u \in issued, w \in issued :
    /\ status[t] = "None"
    /\ status[u] = "Running"
    /\ status[w] = "Queued"

\* C33: the flag belongs to one task.  The flag of a task changes only in a
\* step that calls cancel() on the clone of that task kept in active_tasks
\* (cancel_conversion or the timeout, which take the clone out of
\* active_tasks), and it becomes true; every such call sets the flag the
\* supervisor of that task reads; no step of a reader or a poller, and no
\* step on another task, changes it; a true flag stays true.
C33_FlagScopedToTask ==
  [][\A t \in TaskIds :
       LET cancelCalled == interrupts' # interrupts /\ t \in active \ active'
       IN  /\ cancel_flag'[t] # cancel_flag[t] => cancelCalled
           /\ cancelCalled => cancel_flag'[t]
           /\ cancel_flag[t] => cancel_flag'[t]]_vars

\* C33 witness: the flag of a task whose supervisor has started is true
\* while the supervisor of another task reads its output with its flag false.
C33_OneFlagSetOtherClear ==
  \E t \in TaskIds, u \in TaskIds :
    /\ cancel_flag[t] /\ sup[t] \in {"read", "done_cancel"}
    /\ ~cancel_flag[u] /\ sup[u] = "read"

\* C34: the tasks between acquiring the permit and dropping it in
\* execute_conversion are at most MAX_CONCURRENT_CONVERSIONS, each of them
\* holds one permit of the semaphore, an entry is Running only while its task
\* holds a permit, and so at most MAX_CONCURRENT_CONVERSIONS entries are
\* Running.
C34_RunningHoldsPermit ==
  /\ Cardinality(PermitHolders) <= MAX_CONCURRENT_CONVERSIONS
  /\ permits = MAX_CONCURRENT_CONVERSIONS - Cardinality(PermitHolders)
  /\ get_active_task_count <= MAX_CONCURRENT_CONVERSIONS
  /\ \A t \in TaskIds : status[t] = "Running" => t \in PermitHolders

\* C34 witness: two tasks hold the permits and their entries are Running
\* while a third accepted task waits for a permit.
C34_ThirdTaskWaits ==
  \E t \in TaskIds :
    /\ exec[t] = "acquire" /\ HasEntry(t)
    /\ permits = 0
    /\ get_active_task_count = MAX_CONCURRENT_CONVERSIONS

\* C35: under fair scheduling a supervisor that reads the output of its
\* subprocess and whose task is not cancelled eventually emits a terminal
\* status, unless the task is cancelled meanwhile or a line of the output
\* cannot be read: it does not wait for ever on the output stream while the
\* subprocess is blocked in a write to the stderr pipe.
C35_TerminalStatusEventually ==
  \A t \in DirectIds :
    (sup[t] = "read" /\ ~cancel_flag[t]) ~>
      \/ cancel_flag[t]
      \/ t \in readFailed
      \/ CountTags(sent[t], TerminalTags) > 0

\* C36: a method of AppData makes `state` Completed, Failed or Cancelled only
\* from Converting and with the task id of the Converting state;
\* complete_conversion, fail_conversion, cancel_conversion,
\* update_conversion_progress and start_conversion leave a finished `state`
\* as it is, the first four leave Idle as it is as well, and a finished
\* `state` changes only in reset_conversion, to Idle.
C36_FinishedLeftOnlyByReset ==
  [][ /\ (is_finished(state') /\ state' # state) =>
           ( /\ is_converting(state)
             /\ get_task_id(state') = get_task_id(state)
             /\ appCall'.method \in
                  {"complete_conversion", "fail_conversion", "cancel_conversion"} )
      /\ (is_finished(state) /\ state' # state) =>
           (appCall'.method = "reset_conversion" /\ state' = Idle)
      /\ (is_idle(state) /\ state' # state) =>
           (appCall'.method = "start_conversion") ]_vars

\* C36 witness: complete_conversion, fail_conversion, cancel_conversion,
\* update_conversion_progress or start_conversion was called in a finished
\* state, with the files set and no error message pending.
C36_CalledInFinishedState ==
  /\ appCall.method \in {"complete_conversion", "fail_conversion",
                         "cancel_conversion", "update_conversion_progress",
                         "start_conversion"}
  /\ is_finished(appCall.found)
  /\ is_finished(state)

\* C37: Stop Conversion stops the conversion: the ffmpeg subprocess of a
\* conversion the window has left is not running, and at most one ffmpeg
\* subprocess started from the window is running at any time.
C37_StopEndsSubprocess ==
  /\ \A c \in left : conv[c].ffmpeg # "running"
  /\ Cardinality({c \in ConvIds : conv[c].ffmpeg = "running"}) <= 1

\* C38: no message that a conversion sent after the window left it, and no
\* message of a conversion the window had left when the message was taken, is
\* applied to the progress, status or error fields; what the window shows as
\* progress is of the current conversion and not beyond what its task sent.
C38_NoStaleMessageApplied ==
  /\ staleApplied = {}
  /\ app.progress # NoProgress =>
       /\ app.progress.conv = started
       /\ app.progress.n <= conv[started].lines
       /\ started \notin left

\* C38 witness: a conversion that was left has sent a message afterwards,
\* and a progress message of the conversion started after it is shown.
C38_LateSendIgnored ==
  /\ \E c \in left : c < started /\ conv[c].lateSends > 0
  /\ app.is_converting
  /\ app.progress # NoProgress

====
